---------------------------- MODULE Spec2Model ----------------------------
(***************************************************************************)
(* A model of dynamic-terminal: the change algorithm (ChangeAlgorithm),    *)
(* the caller-side adapter (DynamicTerminal), the IPC channel between the  *)
(* adapter and the forked worker, the worker's render engine               *)
(* (DynamicTerminalThread) and the terminal the engine writes to.          *)
(*                                                                         *)
(* A string is a sequence of tokens.  A token is one visible character     *)
(* ("a", " ", ...) or one whole escape sequence ("ESC[31m", "ESC[K", ...). *)
(* Columns and positions are 0-based as in the source; TLA+ sequences are  *)
(* 1-based, so column i of s is s[i + 1].                                  *)
(***************************************************************************)
EXTENDS Integers, Sequences, FiniteSets, TLC

----------------------------------------------------------------------------
(* Tokens *)

ERASE_LINE_END == "ESC[K"

RESET_STYLE == "ESC[39;49m"

ERASE_DOWN == "ESC[J"

CURSOR_HIDE == "ESC[?25l"

CURSOR_SHOW == "ESC[?25h"

RED == "ESC[31m"

GREEN == "ESC[32m"

CYAN == "ESC[36m"

CLOSE_COLOUR == "ESC[39m"

(* The escape sequences ansi-regex matches in the strings of the model *)
AnsiCodes ==
  {ERASE_LINE_END, RESET_STYLE, ERASE_DOWN, CURSOR_HIDE, CURSOR_SHOW,
   RED, GREEN, CYAN, CLOSE_COLOUR}

IsAnsi(t) == t \in AnsiCodes

(* String.prototype.length of one token: the UTF-16 length of its text *)
TokenLength(t) ==
  CASE t = RESET_STYLE -> 8
    [] t \in {CURSOR_HIDE, CURSOR_SHOW} -> 6
    [] t \in {RED, GREEN, CYAN, CLOSE_COLOUR} -> 5
    [] t \in {ERASE_LINE_END, ERASE_DOWN} -> 3
    [] OTHER -> 1

RECURSIVE JsLength(_)
(* text.length *)
JsLength(s) ==
  IF s = <<>> THEN 0 ELSE TokenLength(Head(s)) + JsLength(Tail(s))

(* stripAnsi(text) *)
stripAnsi(s) == SelectSeq(s, LAMBDA t : ~IsAnsi(t))

(* stripAnsi(text).trim() !== "" *)
NotUseless(s) == \E i \in 1..Len(s) : ~IsAnsi(s[i]) /\ s[i] # " "

Max(a, b) == IF a > b THEN a ELSE b

Min(a, b) == IF a < b THEN a ELSE b

----------------------------------------------------------------------------
(* ChangeAlgorithm.getChanges *)

RECURSIVE CodeMapOf(_, _, _)
(* The position -> codes map the forEach over the matched codes builds:    *)
(* each code is filed under the number of visible characters before it,    *)
(* codes at one position concatenated.  pos is the position reached, m the *)
(* map so far, a function on 0..Len(stripAnsi(s)), <<>> where the source   *)
(* has no entry.                                                           *)
CodeMapOf(s, pos, m) ==
  IF s = <<>> THEN m
  ELSE IF IsAnsi(Head(s))
       THEN CodeMapOf(Tail(s), pos, [m EXCEPT ![pos] = @ \o <<Head(s)>>])
       ELSE CodeMapOf(Tail(s), pos + 1, m)

CodeMap(s) == CodeMapOf(s, 0, [p \in 0..Len(stripAnsi(s)) |-> <<>>])

(* targetCodeArray.indexOf(i) !== -1 *)
HasCode(m, i) == i \in DOMAIN m /\ m[i] # <<>>

(* originalCodeMap[i], undefined (here <<>>) outside the map *)
CodeAt(m, i) == IF i \in DOMAIN m THEN m[i] ELSE <<>>

(* A change opened with no code before its first character *)
CodeToPrependNothing(tm, i) == <<>>

(* The search for the code to prepend when a change is opened: the codes   *)
(* of the last position <= i that has any, else RESET_STYLE                *)
CodeToPrepend(tm, i) ==
  LET ps == {p \in DOMAIN tm : p <= i /\ tm[p] # <<>>}
  IN  IF ps = {} THEN <<RESET_STYLE>>
      ELSE tm[CHOOSE p \in ps : \A q \in ps : q <= p]

(* The closing search: the characters from i up to the first code position *)
(* >= i, then the codes there; nothing when no code follows                *)
ClosingText(st, tm, i) ==
  LET ps == {p \in DOMAIN tm : p >= i /\ tm[p] # <<>>}
  IN  IF ps = {} THEN <<>>
      ELSE LET p == CHOOSE p \in ps : \A q \in ps : p <= q
           IN  SubSeq(st, i + 1, p) \o tm[p]

(* strippedTarget[i] !== strippedOriginal[i] || originalCodeMap[i] !== targetCodeMap[i] *)
Divergent(so, st, om, tm, i) ==
  \/ i >= Len(so)
  \/ st[i + 1] # so[i + 1]
  \/ CodeAt(om, i) # CodeAt(tm, i)

(* A scan that closes the change at every column that is not divergent *)
NextCharDiffersNever(so, st, om, tm, i) == FALSE

(* strippedTarget[i + 1] && strippedTarget[i + 1] !== strippedOriginal[i + 1] *)
NextCharDiffers(so, st, om, tm, i) ==
  /\ i + 1 < Len(st)
  /\ (i + 1 >= Len(so) \/ st[i + 2] # so[i + 2])

NoBuffer == [open |-> FALSE, text |-> <<>>, index |-> 0]

RECURSIVE ScanFrom(_, _, _, _, _, _, _, _)
(* The for loop over the columns of strippedTarget, from column i on, with *)
(* the changes pushed so far and the open changeBuffer                     *)
ScanFrom(so, st, om, tm, line, i, changes, buf) ==
  IF i >= Len(st) THEN [changes |-> changes, buf |-> buf]
  ELSE
    IF Divergent(so, st, om, tm, i)
    THEN IF buf.open
         THEN ScanFrom(so, st, om, tm, line, i + 1, changes,
                [buf EXCEPT !.text = @ \o CodeAt(tm, i) \o <<st[i + 1]>>])
         ELSE ScanFrom(so, st, om, tm, line, i + 1, changes,
                [open |-> TRUE, index |-> i,
                 text |-> CodeToPrepend(tm, i) \o <<st[i + 1]>>])
    ELSE IF ~buf.open
         THEN ScanFrom(so, st, om, tm, line, i + 1, changes, buf)
         ELSE IF NextCharDiffers(so, st, om, tm, i)
              THEN ScanFrom(so, st, om, tm, line, i + 1, changes,
                     [buf EXCEPT !.text = @ \o CodeAt(tm, i) \o <<st[i + 1]>>])
              ELSE LET closed == buf.text \o ClosingText(st, tm, i)
                       pushed == IF NotUseless(closed)
                                 THEN Append(changes,
                                        [line |-> line, index |-> buf.index,
                                         text |-> closed])
                                 ELSE changes
                   IN  ScanFrom(so, st, om, tm, line, i + 1, pushed, NoBuffer)

(* The close of a change still open when the end of the target is reached *)
CloseAtEnd(st, tm, line, scan) ==
  IF ~scan.buf.open THEN scan.changes
  ELSE LET closed == scan.buf.text \o CodeAt(tm, Len(st))
       IN  IF NotUseless(closed)
           THEN Append(scan.changes,
                  [line |-> line, index |-> scan.buf.index, text |-> closed])
           ELSE scan.changes

(* A diff that never erases the rest of the line *)
EraseIfShorterNever(so, st, line, changes) == changes

(* The erase of the rest of the line when the target is the shorter *)
EraseIfShorter(so, st, line, changes) ==
  IF Len(st) < Len(so)
  THEN IF Len(changes) > 0
       THEN [changes EXCEPT ![Len(changes)].text = @ \o <<ERASE_LINE_END>>]
       ELSE <<[line |-> line, index |-> Len(st), text |-> <<ERASE_LINE_END>>]>>
  ELSE changes

getChanges(original, target, line) ==
  IF original = target THEN <<>>
  ELSE IF original = <<>>
  THEN <<[line |-> line, index |-> 0, text |-> target]>>
  ELSE IF target = <<>>
  THEN <<[line |-> line, index |-> 0, text |-> <<ERASE_LINE_END>>]>>
  ELSE
    LET so == stripAnsi(original)
        st == stripAnsi(target)
        om == CodeMap(original)
        tm == CodeMap(target)
        scan == ScanFrom(so, st, om, tm, line, 0, <<>>, NoBuffer)
    IN  EraseIfShorter(so, st, line, CloseAtEnd(st, tm, line, scan))

----------------------------------------------------------------------------
(* The terminal the worker writes to.  rows are the rows of the screen     *)
(* from the row the cursor was on when the session started (row 0) down,   *)
(* each a sequence of visible characters with erased and unwritten cells   *)
(* as " " and trailing blanks dropped; rows above row 0 are not recorded.  *)
(* line and col are the real cursor, relative to that row.  width is what  *)
(* windowSize.get() reports; the terminal itself never wraps a row.        *)

CR == "CR"

LF == "LF"

RECURSIVE TrimRight(_)
TrimRight(r) ==
  IF r # <<>> /\ r[Len(r)] = " " THEN TrimRight(SubSeq(r, 1, Len(r) - 1)) ELSE r

RECURSIVE TrimRows(_)
TrimRows(rows) ==
  IF rows # <<>> /\ rows[Len(rows)] = <<>>
  THEN TrimRows(SubSeq(rows, 1, Len(rows) - 1))
  ELSE rows

Spaces(n) == [i \in 1..n |-> " "]

RowAt(rows, line) == IF line >= 0 /\ line < Len(rows) THEN rows[line + 1] ELSE <<>>

SetRow(rows, line, r) ==
  IF line < 0 THEN rows
  ELSE LET padded == rows \o [i \in 1..(line + 1 - Len(rows)) |-> <<>>]
       IN  TrimRows([padded EXCEPT ![line + 1] = TrimRight(r)])

(* The first n cells of a row, the whole row when it is shorter *)
Prefix(r, n) == SubSeq(r, 1, Min(Len(r), n))

(* A visible character: written at the cursor, which moves one column on *)
TermPut(term, c) ==
  LET row == RowAt(term.rows, term.line)
      new == IF term.col < Len(row)
             THEN [row EXCEPT ![term.col + 1] = c]
             ELSE row \o Spaces(term.col - Len(row)) \o <<c>>
  IN  [term EXCEPT !.rows = SetRow(@, term.line, new), !.col = @ + 1]

(* ESC[K: the cursor's row is cleared from the cursor on *)
TermEraseEndLine(term) ==
  [term EXCEPT !.rows =
     SetRow(@, term.line, Prefix(RowAt(@, term.line), term.col))]

(* ESC[J: as ESC[K, and every row below the cursor is cleared *)
TermEraseDown(term) ==
  [term EXCEPT !.rows =
     IF term.line < 0 THEN <<>>
     ELSE SetRow(SubSeq(@, 1, Min(Len(@), term.line + 1)), term.line,
                 Prefix(RowAt(@, term.line), term.col))]

TermToken(term, t) ==
  CASE t = ERASE_LINE_END -> TermEraseEndLine(term)
    [] t = ERASE_DOWN -> TermEraseDown(term)
    [] t = CURSOR_HIDE -> [term EXCEPT !.cursorShown = FALSE]
    [] t = CURSOR_SHOW -> [term EXCEPT !.cursorShown = TRUE]
    [] t = CR -> [term EXCEPT !.col = 0]
    [] t = LF -> [term EXCEPT !.line = @ + 1, !.col = 0]
    [] t \in {RESET_STYLE, RED, GREEN, CYAN, CLOSE_COLOUR} -> term
    [] OTHER -> TermPut(term, t)

RECURSIVE TermWrite(_, _)
TermWrite(term, text) ==
  IF text = <<>> THEN term ELSE TermWrite(TermToken(term, Head(text)), Tail(text))

(* ESC[nF, cursor to the start of the row n rows up *)
TermPrevLine(term, n) == [term EXCEPT !.line = @ - n, !.col = 0]

(* ESC[nC *)
TermForward(term, n) == [term EXCEPT !.col = @ + n]

(* ESC[nD *)
TermBackward(term, n) == [term EXCEPT !.col = Max(0, @ - n)]

(* A session starts on the row the cursor is on: from then on the rows are *)
(* counted from that row                                                   *)
TermNewSession(term) ==
  [term EXCEPT
     !.rows = IF term.line >= 0
              THEN SubSeq(@, term.line + 1, Len(@))
              ELSE [i \in 1..(0 - term.line) |-> <<>>] \o @,
     !.line = 0]

----------------------------------------------------------------------------
(* DynamicTerminalThread.  An engine value e is [th, term, out]: the       *)
(* fields of the DynamicTerminalThread object, the terminal, and the text  *)
(* written to the terminal so far by the handler that is running.          *)

SPINNER == <<"_", "*", "_">>

(* The frames of elegant-spinner *)
Frames == <<"s0", "s1", "s2", "s3", "s4", "s5", "s6", "s7", "s8", "s9">>

(* frames[i = ++i % frames.length], as the string it returns *)
SpinnerFrame(i) == <<Frames[((i + 1) % Len(Frames)) + 1]>>

DEFAULT_OPTIONS ==
  [disableInput |-> FALSE, hideCursor |-> TRUE, repaintOnResize |-> FALSE,
   updateFrequency |-> 100]

(* chalk.cyan, the spinnerColor the thread is constructed with; chalk      *)
(* returns "" for "".  fn names the function.                              *)
ApplyColour(fn, s) ==
  IF s = <<>> THEN <<>>
  ELSE IF fn = "chalk.cyan" THEN <<CYAN>> \o s \o <<CLOSE_COLOUR>>
  ELSE <<GREEN>> \o s \o <<CLOSE_COLOUR>>

(* this.write(text) and process.stdout.write(text) *)
write(e, text) ==
  [e EXCEPT !.term = TermWrite(@, text), !.out = @ \o text]

(* The first if of moveCursorTo: the row *)
MoveToLine(e, line) ==
  IF line < e.th.cursorLine
  THEN [e EXCEPT
          !.term = TermPrevLine(@, e.th.cursorLine - line),
          !.out = Append(@, "ESC[" \o ToString(e.th.cursorLine - line) \o "F"),
          !.th.cursorLine = line, !.th.cursorIndex = 0]
  ELSE IF line > e.th.cursorLine
  THEN [e EXCEPT
          !.term = TermWrite(@, [i \in 1..(line - e.th.cursorLine) |-> LF]),
          !.out = @ \o [i \in 1..(line - e.th.cursorLine) |-> LF],
          !.th.cursorLine = line, !.th.cursorIndex = 0]
  ELSE e

(* The second if of moveCursorTo: the column *)
MoveToIndex(e, index) ==
  IF index > e.th.cursorIndex
  THEN [e EXCEPT
          !.term = TermForward(@, index - e.th.cursorIndex),
          !.out = Append(@, "ESC[" \o ToString(index - e.th.cursorIndex) \o "C"),
          !.th.cursorIndex = index]
  ELSE IF index < e.th.cursorIndex
  THEN IF index = 0
       THEN [e EXCEPT !.term = TermWrite(@, <<CR>>), !.out = Append(@, CR),
                      !.th.cursorIndex = index]
       ELSE [e EXCEPT
               !.term = TermBackward(@, e.th.cursorIndex - index),
               !.out = Append(@, "ESC[" \o ToString(e.th.cursorIndex - index) \o "D"),
               !.th.cursorIndex = index]
  ELSE e

moveCursorTo(e, line, index) == MoveToIndex(MoveToLine(e, line), index)

(* text.indexOf(SPINNER), -1 when absent *)
IndexOfSpinner(text) ==
  LET hits == {i \in 0..(Len(text) - Len(SPINNER)) :
                 SubSeq(text, i + 1, i + Len(SPINNER)) = SPINNER}
  IN  IF hits = {} THEN -1 ELSE CHOOSE i \in hits : \A j \in hits : i <= j

(* text.replace(SPINNER, glyph): a string pattern replaces its first       *)
(* occurrence only                                                         *)
ReplaceSpinner(text, glyph) ==
  LET i == IndexOfSpinner(text)
  IN  IF i = -1 THEN text
      ELSE SubSeq(text, 1, i) \o glyph \o SubSeq(text, i + Len(SPINNER) + 1, Len(text))

RECURSIVE WrapFrom(_, _, _, _, _)
(* wrapAnsi(text, width, {hard: true, trim: false}), as the opaque         *)
(* wrap(text, width) of the design: a new row is begun whenever a visible  *)
(* character would go beyond column width; an escape sequence takes no     *)
(* column.  rows are the finished rows, row the one being filled, col its  *)
(* visible length.                                                         *)
WrapFrom(text, width, rows, row, col) ==
  IF text = <<>> THEN Append(rows, row)
  ELSE IF IsAnsi(Head(text))
       THEN WrapFrom(Tail(text), width, rows, Append(row, Head(text)), col)
       ELSE IF col >= width
            THEN WrapFrom(Tail(text), width, Append(rows, row), <<Head(text)>>, 1)
            ELSE WrapFrom(Tail(text), width, rows, Append(row, Head(text)), col + 1)

wrapAnsi(text, width) == WrapFrom(text, width, <<>>, <<>>, 0)

(* indentString(row, count), which leaves a row of blanks (and an empty    *)
(* row) alone                                                              *)
indentString(row, count) ==
  IF \A i \in 1..Len(row) : row[i] = " " THEN row ELSE Spaces(count) \o row

(* The rows one line gives: spinner replaced, wrapped, indented *)
LineRows(text, indent, glyph, width) ==
  LET wrapped == wrapAnsi(ReplaceSpinner(text, glyph), width)
  IN  [i \in 1..Len(wrapped) |-> indentString(wrapped[i], indent)]

RECURSIVE PreviousLines(_, _, _)
(* The forEach over previousRender: the rows as strings *)
PreviousLines(lines, glyph, width) ==
  IF lines = <<>> THEN <<>>
  ELSE LineRows(Head(lines).text, Head(lines).indent, glyph, width)
         \o PreviousLines(Tail(lines), glyph, width)

RECURSIVE NextLines(_, _, _)
(* The forEach over nextRender: the rows with the force flag of their line *)
NextLines(lines, glyph, width) ==
  IF lines = <<>> THEN <<>>
  ELSE LET rows == LineRows(Head(lines).text, Head(lines).indent, glyph, width)
       IN  [i \in 1..Len(rows) |->
              [force |-> Head(lines).force = TRUE, text |-> rows[i]]]
             \o NextLines(Tail(lines), glyph, width)

(* previousLines[lineNumber], "" (the default parameter) beyond the end *)
PreviousLine(previousLines, lineNumber) ==
  IF lineNumber < Len(previousLines) THEN previousLines[lineNumber + 1] ELSE <<>>

(* A render that rewrites every row as a forced row *)
LineChangesForced(previousLines, nextLines, lineNumber) ==
  <<[index |-> 0, line |-> lineNumber,
     text |-> nextLines[lineNumber + 1].text \o <<ERASE_LINE_END>>]>>

(* The changes of one row: the whole row when forced, else the diff *)
LineChanges(previousLines, nextLines, lineNumber) ==
  IF nextLines[lineNumber + 1].force = TRUE
  THEN <<[index |-> 0, line |-> lineNumber,
          text |-> nextLines[lineNumber + 1].text \o <<ERASE_LINE_END>>]>>
  ELSE getChanges(PreviousLine(previousLines, lineNumber),
                  nextLines[lineNumber + 1].text, lineNumber)

RECURSIVE FrameChanges(_, _, _)
(* The for loop over the rows of nextLines, from row lineNumber on *)
FrameChanges(previousLines, nextLines, lineNumber) ==
  IF lineNumber >= Len(nextLines) THEN <<>>
  ELSE LineChanges(previousLines, nextLines, lineNumber)
         \o FrameChanges(previousLines, nextLines, lineNumber + 1)

(* The erase of the rest of the screen when rows trail *)
EraseTrailing(previousLines, nextLines, changes) ==
  IF Len(previousLines) > Len(nextLines)
  THEN IF Len(changes) > 0
       THEN [changes EXCEPT ![Len(changes)].text = @ \o <<ERASE_DOWN>>]
       ELSE <<[index |-> 0, line |-> 0, text |-> <<ERASE_DOWN>>]>>
  ELSE changes

(* One round of the loop over the changes: move, write, advance *)
WriteChange(e, c) ==
  [write(moveCursorTo(e, c.line, c.index), c.text) EXCEPT
     !.th.cursorIndex = @ + Len(stripAnsi(c.text))]

RECURSIVE ApplyChanges(_, _)
(* The loop that moves to each change and writes it *)
ApplyChanges(e, changes) ==
  IF changes = <<>> THEN e
  ELSE ApplyChanges(WriteChange(e, Head(changes)), Tail(changes))

(* The last row's text of a frame, "" for an empty frame *)
LastText(rows) == IF rows = <<>> THEN <<>> ELSE rows[Len(rows)]

(* previousLines as render first builds it, at the width the terminal      *)
(* reports                                                                 *)
OldFrame(e) ==
  PreviousLines(e.th.previousRender,
    ApplyColour(e.th.spinnerColor, e.th.previousSpinner), e.term.width)

(* nextLines as render builds it *)
NewFrame(e) ==
  NextLines(e.th.nextRender,
    ApplyColour(e.th.spinnerColor, e.th.nextSpinner), e.term.width)

(* this.repaintOnResize && this.previousSize.width !== size.width *)
Repaint(e) == e.th.repaintOnResize /\ e.th.previousSize # e.term.width

(* The changes from one frame to the other *)
Changes(previousLines, nextLines) ==
  EraseTrailing(previousLines, nextLines, FrameChanges(previousLines, nextLines, 0))

(* The changes a render computes in engine state e *)
RenderChanges(e) ==
  Changes(IF Repaint(e) THEN <<>> ELSE OldFrame(e), NewFrame(e))

(* The stored cursor position is taken from the old frame *)
SetBelief(e, previousLines) ==
  [e EXCEPT !.th.cursorLine = Max(0, Len(previousLines) - 1),
            !.th.cursorIndex = JsLength(LastText(previousLines))]

(* The full repaint, when one is due *)
RepaintIfResized(e) ==
  IF Repaint(e)
  THEN [write(moveCursorTo(e, 0, 0), <<ERASE_DOWN>>) EXCEPT
          !.th.previousSize = e.term.width]
  ELSE e

(* render up to the computation of the changes *)
RenderPrepare(e) ==
  [RepaintIfResized(SetBelief(e, OldFrame(e))) EXCEPT
     !.th.previousSpinner = e.th.nextSpinner]

(* render after the changes: the cursor goes to the end of the new frame,  *)
(* which is stored as the previous render                                  *)
RenderFinish(e, nextLines) ==
  [moveCursorTo(e, Max(0, Len(nextLines) - 1),
     JsLength(IF nextLines = <<>> THEN <<>> ELSE nextLines[Len(nextLines)].text))
   EXCEPT !.th.previousRender =
     [i \in 1..Len(nextLines) |-> [indent |-> 0, text |-> nextLines[i].text]]]

render(e) ==
  IF ~e.th.active THEN e
  ELSE RenderFinish(ApplyChanges(RenderPrepare(e), RenderChanges(e)), NewFrame(e))

(* Whether some line of the render queue holds the spinner *)
SpinnerPresent(lines) == \E i \in 1..Len(lines) : IndexOfSpinner(lines[i].text) # -1

(* startTimer that does not look at the interval reference *)
startTimerUnguarded(e) ==
  IF e.th.active /\ SpinnerPresent(e.th.nextRender)
  THEN [e EXCEPT !.th.renderInterval = TRUE, !.th.intervals = @ + 1]
  ELSE e

startTimer(e) ==
  IF ~e.th.renderInterval /\ e.th.active /\ SpinnerPresent(e.th.nextRender)
  THEN [e EXCEPT !.th.renderInterval = TRUE, !.th.intervals = @ + 1]
  ELSE e

(* clearInterval and the interval reference *)
ClearInterval(e) == [e EXCEPT !.th.renderInterval = FALSE, !.th.intervals = @ - 1]

(* stopTimer that leaves the interval registered *)
stopTimerNever(e) == e

stopTimer(e) == IF e.th.renderInterval THEN render(ClearInterval(e)) ELSE e

(* options.key after {...DEFAULT_OPTIONS, ...options} *)
Merged(options) == options @@ DEFAULT_OPTIONS

(* start, statement by statement; opt is the merged options *)
Activate(e) ==
  [e EXCEPT !.th.active = TRUE,
            !.th.wasRaw = IF e.th.isRaw THEN "true" ELSE "false"]

DisableInput(e, opt) ==
  IF opt.disableInput THEN [e EXCEPT !.th.isRaw = TRUE] ELSE e

HideCursor(e, opt) ==
  IF opt.hideCursor
  THEN [e EXCEPT !.th.cursorHidden = TRUE,
                 !.term = TermWrite(@, <<CURSOR_HIDE>>),
                 !.out = Append(@, CURSOR_HIDE)]
  ELSE e

SetSpinnerColour(e, opt) ==
  IF "spinnerColour" \in DOMAIN opt
  THEN [e EXCEPT !.th.spinnerColor = opt.spinnerColour]
  ELSE e

SetUpdateFrequency(e, opt) ==
  IF opt.updateFrequency # 0
  THEN [e EXCEPT !.th.updateFrequency = opt.updateFrequency]
  ELSE e

SetRepaintOnResize(e, opt) ==
  IF opt.repaintOnResize
  THEN [e EXCEPT !.th.repaintOnResize = opt.repaintOnResize]
  ELSE e

(* The renders are emptied and the cursor position reset: the session's    *)
(* row 0 is the row the cursor is on                                       *)
ResetSession(e) ==
  [e EXCEPT !.th.previousRender = <<>>, !.th.nextRender = <<>>,
            !.term = TermWrite(TermNewSession(@), <<CR, ERASE_LINE_END>>),
            !.out = @ \o <<CR, ERASE_LINE_END>>,
            !.th.cursorLine = 0, !.th.cursorIndex = 0]

StartSession(e, opt) ==
  startTimer(ResetSession(SetRepaintOnResize(SetUpdateFrequency(
    SetSpinnerColour(HideCursor(DisableInput(Activate(e), opt), opt), opt),
    opt), opt)))

(* A start that does not look at active *)
AlreadyActiveIgnored(e) == FALSE

(* if (!this.active): the guard of start *)
AlreadyActive(e) == e.th.active

start(e, options) ==
  IF AlreadyActive(e) THEN e ELSE StartSession(e, Merged(options))

(* stop, statement by statement *)
Deactivate(e) == [e EXCEPT !.th.active = FALSE]

(* The committed output is rendered a last time and the cursor put below   *)
(* it, or the output is erased                                             *)
MoveBelow(e) == moveCursorTo(e, Len(e.th.previousRender), 0)

DiscardNext(e) == [e EXCEPT !.th.nextRender = <<>>]

StopOutput(e, commit) ==
  IF commit THEN MoveBelow(render(e))
  ELSE write(moveCursorTo(DiscardNext(e), 0, 0), <<ERASE_DOWN>>)

(* A stop that leaves the raw mode as the session set it *)
RestoreRawSkipped(e) == e

(* setRawMode(this.wasRaw) unless wasRaw is null, and wasRaw = null *)
RestoreRaw(e) ==
  [e EXCEPT !.th.isRaw = IF e.th.wasRaw # "null" THEN e.th.wasRaw = "true" ELSE @,
            !.th.wasRaw = "null"]

ShowCursor(e) ==
  [e EXCEPT !.term = IF e.th.cursorHidden THEN TermWrite(@, <<CURSOR_SHOW>>) ELSE @,
            !.out = IF e.th.cursorHidden THEN Append(@, CURSOR_SHOW) ELSE @,
            !.th.cursorHidden = FALSE]

ClearRenders(e) == [e EXCEPT !.th.previousRender = <<>>, !.th.nextRender = <<>>]

stop(e, commit) ==
  IF ~e.th.active THEN e
  ELSE ClearRenders(ShowCursor(RestoreRaw(
         StopOutput(stopTimer(Deactivate(e)), commit))))

resetRender(e) == [e EXCEPT !.th.previousRender = <<>>]

getLines(e) == e.th.nextRender

----------------------------------------------------------------------------
(* Values that cross the channel.  A caller's content is a string, a line  *)
(* object, an array of either, null or undefined; a line object is a       *)
(* record of the fields it has.                                            *)

Str(s) == [type |-> "string", val |-> s]

Obj(o) == [type |-> "object", val |-> o]

Arr(a) == [type |-> "array", val |-> a]

Null == [type |-> "null", val |-> <<>>]

Undefined == [type |-> "undefined", val |-> <<>>]

RECURSIVE SplitLines(_, _)
(* text.split("\n"): cur is the piece being read *)
SplitLines(text, cur) ==
  IF text = <<>> THEN <<cur>>
  ELSE IF Head(text) = LF
       THEN <<cur>> \o SplitLines(Tail(text), <<>>)
       ELSE SplitLines(Tail(text), Append(cur, Head(text)))

(* Lines made without the force flag of their element *)
splitStringToLineObjectsUnforced(text, indent, force) ==
  LET parts == SplitLines(text, <<>>)
  IN  [i \in 1..Len(parts) |-> [text |-> parts[i], indent |-> indent, force |-> FALSE]]

splitStringToLineObjects(text, indent, force) ==
  LET parts == SplitLines(text, <<>>)
  IN  [i \in 1..Len(parts) |-> [text |-> parts[i], indent |-> indent, force |-> force]]

(* element.field || dflt *)
FieldOr(o, field, dflt) == IF field \in DOMAIN o THEN o[field] ELSE dflt

(* The lines one element of the array gives; reading .text of null throws *)
ElementLines(el) ==
  CASE el.type = "string" ->
         [ok |-> TRUE, lines |-> splitStringToLineObjects(el.val, 0, FALSE)]
    [] el.type = "object" ->
         [ok |-> TRUE,
          lines |-> IF "text" \in DOMAIN el.val
                    THEN splitStringToLineObjects(el.val.text,
                           FieldOr(el.val, "indent", 0), FieldOr(el.val, "force", FALSE))
                    ELSE <<>>]
    [] el.type = "null" -> [ok |-> FALSE, lines |-> <<>>]
    [] OTHER -> [ok |-> TRUE, lines |-> <<>>]

RECURSIVE ArrayLines(_)
ArrayLines(a) ==
  IF a = <<>> THEN [ok |-> TRUE, lines |-> <<>>]
  ELSE LET h == ElementLines(Head(a))
           t == ArrayLines(Tail(a))
       IN  IF h.ok /\ t.ok THEN [ok |-> TRUE, lines |-> h.lines \o t.lines]
           ELSE [ok |-> FALSE, lines |-> <<>>]

(* processTextToLineObjects: ok is FALSE when it throws *)
processTextToLineObjects(text) ==
  CASE text.type = "array" -> ArrayLines(text.val)
    [] text.type \in {"object", "null"} -> ArrayLines(<<text>>)
    [] text.type = "string" -> ElementLines(text)
    [] OTHER -> [ok |-> TRUE, lines |-> <<>>]

(* An update that renders without taking the lines of its argument *)
updateKeepsLines(e, text) == render(startTimer(e))

(* update(text) *)
update(e, text) ==
  LET p == processTextToLineObjects(text)
  IN  render(startTimer([e EXCEPT !.th.nextRender = p.lines]))

(* append(text) *)
append(e, text) ==
  LET p == processTextToLineObjects(text)
  IN  render(startTimer([e EXCEPT !.th.nextRender = @ \o p.lines]))

(* updateSpinner() *)
updateSpinner(e) ==
  render([e EXCEPT !.th.nextSpinner = SpinnerFrame(e.th.spinnerIndex),
                   !.th.spinnerIndex = (@ + 1) % Len(Frames)])

(* What JSON keeps of an options object: a function is dropped *)
SerializeOptions(options) ==
  [k \in DOMAIN options \ {"spinnerColour"} |-> options[k]]

----------------------------------------------------------------------------
(* Bounds of the model *)

(* Calls in one behaviour of the session specification, whose caller      *)
(* awaits each call                                                        *)
MaxSessionCalls == 3

(* Calls in one behaviour of the channel specification, whose caller does  *)
(* not await                                                               *)
MaxCalls == 2

(* Calls in one behaviour of the worker specification *)
MaxWorkerCalls == 1

(* Worker processes forked in one behaviour *)
MaxWorkers == 2

(* Ticks of the spinner interval in one behaviour *)
MaxTicks == 1

(* Resizes of the terminal in one behaviour *)
MaxResizes == 1

(* The length of the strings getChanges is given *)
MaxDiffLen == 3

(* The length of the longer strings getChanges is given, which hold no     *)
(* blank                                                                   *)
MaxLongLen == 5

Workers == 1..MaxWorkers

(* The widths windowSize.get() reports *)
Widths == {4, 6}

----------------------------------------------------------------------------
(* State *)

VARIABLES
  worker,     \* DynamicTerminal.worker: the worker's number, 0 for null
  lastError,  \* DynamicTerminal.lastError
  calls,      \* the calls made so far; call c sends with uuid c
  cmdQ,       \* per worker: the commands sent to it and not yet received
  respQ,      \* per worker: its responses not yet emitted as "message" events
  proc,       \* per worker: "none", "running", "killed" (SIGTERM pending), "exited"
  hasDisconnectListener, \* per worker: the once("disconnect") listener is registered
  thread,     \* per worker: the fields of its DynamicTerminalThread
  term,       \* the terminal
  out,        \* the text the last engine step wrote to the terminal
  handled,    \* per worker: the commands it received, each with its responses
  ticks,      \* the ticks so far
  destroyRet, \* what the last destroy() returned, "none" before the first
  resizes,    \* the resizes of the terminal so far
  diff,       \* one run of getChanges: its arguments, its result, and the row
              \* the changes are applied to
  callerLine  \* the Line object the caller holds and passes by reference

vars ==
  <<worker, lastError, calls, cmdQ, respQ, proc, hasDisconnectListener, thread,
    term, out, handled, ticks, destroyRet, resizes, diff, callerLine>>

(* The Line object of the caller when the adapter is constructed *)
InitialLine == [type |-> "object", val |-> [text |-> <<"_", "*", "_", "a">>]]

(* diff while getChanges is not run *)
NoDiff ==
  [phase |-> "none", original |-> <<>>, target |-> <<>>, changes |-> <<>>,
   row |-> <<>>, applied |-> 0]

NoWorker == 0

NoError == "undefined"

NO_WORKER == "No worker! Try restarting the worker"

COMMUNICATION_TIMEOUT == "Communication timeout"

(* The fields of a new DynamicTerminalThread, after its constructor *)
NewThread(width) ==
  [active |-> FALSE, wasRaw |-> "null", isRaw |-> FALSE, cursorHidden |-> FALSE,
   previousSpinner |-> <<>>, spinnerIndex |-> 1, nextSpinner |-> SpinnerFrame(0),
   updateFrequency |-> 100, spinnerColor |-> "chalk.cyan",
   repaintOnResize |-> FALSE, previousSize |-> width,
   previousRender |-> <<>>, nextRender |-> <<>>,
   renderInterval |-> FALSE, intervals |-> 0,
   cursorLine |-> 0, cursorIndex |-> 0]

(* The engine value of worker w in the current state *)
Engine(w) == [th |-> thread[w], term |-> term, out |-> <<>>]

----------------------------------------------------------------------------
(* DynamicTerminal: the caller-side adapter *)

(* A message as sent: the fields a command can carry, those it lacks at    *)
(* their undefined value                                                   *)
Message(cmd, id, options, commit, text, force) ==
  [cmd |-> cmd, uuid |-> id, options |-> SerializeOptions(options),
   commit |-> commit, text |-> text, force |-> force]

(* The status a method takes for success *)
ExpectedStatus(op) ==
  CASE op = "START" -> "started"
    [] op = "STOP" -> "stopped"
    [] op = "UPDATE" -> "updated"
    [] op = "APPEND" -> "appended"
    [] op = "RENDER" -> "rendered"
    [] op = "RENDER_QUEUE" -> "rendered"
    [] OTHER -> "none"

(* The call record fields: op the command, w the worker it went to, st the *)
(* promise's state, by what settled it, listener and timer whether send's  *)
(* handler and timeout are still registered, sent whether the message went *)
(* out, resolves how often resolve() ran, seen how many "message" events   *)
(* the handler was run for, respStatus, respUuid, respData the response    *)
(* that resolved it, ret and data what the method returned, setError       *)
(* whether the call assigned lastError                                     *)

(* if (!worker): the method's guard *)
HasNoWorker(w) == w = NoWorker

(* A method that registers its handler and timer before it looks for the  *)
(* worker                                                                  *)
NoWorkerCallRegistered(op) ==
  [op |-> op, w |-> NoWorker, st |-> "resolved", by |-> "noworker",
   listener |-> TRUE, timer |-> TRUE, sent |-> FALSE, resolves |-> 0,
   respStatus |-> "none", respUuid |-> 0, respData |-> <<>>, seen |-> 0,
   ret |-> FALSE, data |-> <<>>, setError |-> TRUE]

(* The call record of a method that found no worker: it returns false (or  *)
(* []) at once                                                             *)
NoWorkerCall(op) ==
  [op |-> op, w |-> NoWorker, st |-> "resolved", by |-> "noworker",
   listener |-> FALSE, timer |-> FALSE, sent |-> FALSE, resolves |-> 0,
   respStatus |-> "none", respUuid |-> 0, respData |-> <<>>, seen |-> 0,
   ret |-> FALSE, data |-> <<>>, setError |-> TRUE]

(* The call record once send() has registered its handler and its timer;   *)
(* failed: worker.send called back with an error, and the promise is       *)
(* rejected                                                                *)
SentCall(op, w, failed) ==
  [op |-> op, w |-> w,
   st |-> IF failed THEN "rejected" ELSE "pending",
   by |-> IF failed THEN "senderror" ELSE "none",
   listener |-> TRUE, timer |-> TRUE, sent |-> ~failed, resolves |-> 0,
   respStatus |-> "none", respUuid |-> 0, respData |-> <<>>, seen |-> 0,
   ret |-> FALSE, data |-> <<>>, setError |-> FALSE]

(* What a method returns for the response msg it awaited *)
ReturnOf(op, status) == status = ExpectedStatus(op)

(* A handler that takes any message for its own *)
MatchesAny(msg, id) == TRUE

(* msg.uuid === id, the test of send's handler *)
Matches(msg, id) == msg.uuid = id

(* A handler that resolves without clearTimeout *)
HandlerResultKeepTimer(call, c, msg) ==
  IF ~Matches(msg, c) THEN [call EXCEPT !.seen = @ + 1]
  ELSE [call EXCEPT
          !.listener = FALSE,
          !.resolves = @ + 1, !.seen = @ + 1,
          !.st = "resolved", !.by = "response",
          !.respStatus = msg.status, !.respUuid = msg.uuid,
          !.respData = msg.data,
          !.ret = ReturnOf(call.op, msg.status)]

(* send's handler for call c on a "message" event with msg: on a match it  *)
(* removes itself, clears the timer and resolves; the awaiting method then *)
(* returns                                                                 *)
HandlerResult(call, c, msg) ==
  IF ~Matches(msg, c) THEN [call EXCEPT !.seen = @ + 1]
  ELSE LET first == call.st = "pending"
       IN  [call EXCEPT
              !.listener = FALSE, !.timer = FALSE,
              !.resolves = @ + 1, !.seen = @ + 1,
              !.st = IF first THEN "resolved" ELSE @,
              !.by = IF first THEN "response" ELSE @,
              !.respStatus = IF first THEN msg.status ELSE @,
              !.respUuid = IF first THEN msg.uuid ELSE @,
              !.respData = IF first THEN msg.data ELSE @,
              !.ret = IF first THEN ReturnOf(call.op, msg.status) ELSE @,
              !.data = IF first /\ call.op = "RENDER_QUEUE"
                          /\ ReturnOf(call.op, msg.status)
                       THEN msg.data ELSE @]

(* A timeout callback that removes the handler and never resolves *)
TimeoutResultHang(call) ==
  [call EXCEPT !.listener = FALSE, !.timer = FALSE]

(* send's timeout callback for a call: it removes the handler, sets        *)
(* lastError and resolves with null; the awaiting method returns false     *)
TimeoutResult(call) ==
  LET first == call.st = "pending"
  IN  [call EXCEPT
         !.listener = FALSE, !.timer = FALSE,
         !.resolves = @ + 1,
         !.setError = TRUE,
         !.st = IF first THEN "resolved" ELSE @,
         !.by = IF first THEN "timeout" ELSE @]

(* One of start, stop, update, append, forceRender, getRenderQueue, or a   *)
(* direct send of another command.  failed: the channel to an exited       *)
(* worker may report the write as failed, or not report at all.            *)
Call(op, options, commit, text, force) ==
  /\ IF HasNoWorker(worker)
     THEN /\ lastError' = NO_WORKER
          /\ calls' = Append(calls, NoWorkerCall(op))
          /\ UNCHANGED cmdQ
     ELSE \E failed \in (IF proc[worker] = "exited" THEN BOOLEAN ELSE {FALSE}) :
            /\ calls' = Append(calls, SentCall(op, worker, failed))
            /\ cmdQ' = IF proc[worker] = "exited" THEN cmdQ
                       ELSE [cmdQ EXCEPT ![worker] = Append(@,
                               Message(op, Len(calls) + 1, options, commit, text, force))]
            /\ UNCHANGED lastError
  /\ UNCHANGED <<callerLine, worker, respQ, proc, hasDisconnectListener, thread, term, out,
                 handled, ticks, destroyRet, resizes,
                 diff>>

(* The contents and options the callers of the model pass *)
Contents ==
  {Str(<<"a", "b", "c", "d", "e">>),
   Obj([text |-> SPINNER \o <<"b", "c", "d", "e">>, indent |-> 1]),
   Obj([text |-> <<"a", "b">>, force |-> TRUE]),
   Null}

OptionSets ==
  {<<>>,
   [hideCursor |-> FALSE, disableInput |-> TRUE, repaintOnResize |-> TRUE,
    spinnerColour |-> "chalk.green"]}

Start(options) == Call("START", options, FALSE, Undefined, FALSE)

Stop(commit) == Call("STOP", <<>>, commit, Undefined, FALSE)

Update(text) == Call("UPDATE", <<>>, FALSE, text, FALSE)

AppendLines(text) == Call("APPEND", <<>>, FALSE, text, FALSE)

ForceRender(force) == Call("RENDER", <<>>, FALSE, Undefined, force)

GetRenderQueue == Call("RENDER_QUEUE", <<>>, FALSE, Undefined, FALSE)

(* send() with a command the worker does not know *)
SendUnknown == Call("UNKNOWN", <<>>, FALSE, Undefined, FALSE)

(* destroy() *)
Destroy ==
  /\ IF worker # NoWorker
     THEN /\ cmdQ' = IF proc[worker] = "exited" THEN cmdQ
                     ELSE [cmdQ EXCEPT ![worker] = Append(@,
                             Message("DESTROY", 0, <<>>, FALSE, Undefined, FALSE))]
          /\ worker' = NoWorker
          /\ destroyRet' = "true"
     ELSE /\ destroyRet' = "false"
          /\ UNCHANGED <<cmdQ, worker>>
  /\ destroyRet' # destroyRet \/ worker' # worker
  /\ UNCHANGED <<callerLine, lastError, calls, respQ, proc, hasDisconnectListener, thread,
                 term, out, handled, ticks, resizes, diff>>

(* startWorker(), when there is no worker: a new process is forked *)
StartWorker ==
  /\ worker = NoWorker
  /\ \E w \in Workers :
       /\ proc[w] = "none"
       /\ \A v \in Workers : v < w => proc[v] # "none"
       /\ worker' = w
       /\ proc' = [proc EXCEPT ![w] = "running"]
       /\ hasDisconnectListener' = [hasDisconnectListener EXCEPT ![w] = TRUE]
       /\ thread' = [thread EXCEPT ![w] = NewThread(term.width)]
  /\ UNCHANGED <<callerLine, lastError, calls, cmdQ, respQ, term, out, handled, ticks,
                 destroyRet, resizes,
                 diff>>

(* A "message" event of worker w: every handler registered on w sees it *)
WorkerMessage(w) ==
  /\ respQ[w] # <<>>
  /\ calls' = [c \in DOMAIN calls |->
                 IF calls[c].listener /\ calls[c].w = w
                 THEN HandlerResult(calls[c], c, Head(respQ[w]))
                 ELSE calls[c]]
  /\ respQ' = [respQ EXCEPT ![w] = Tail(@)]
  /\ UNCHANGED <<callerLine, worker, lastError, cmdQ, proc, hasDisconnectListener, thread,
                 term, out, handled, ticks, destroyRet, resizes,
                 diff>>

(* The timeout of call c fires *)
Timeout(c) ==
  /\ c \in DOMAIN calls
  /\ calls[c].timer
  /\ calls' = [calls EXCEPT ![c] = TimeoutResult(@)]
  /\ lastError' = IF calls'[c].setError THEN COMMUNICATION_TIMEOUT ELSE lastError
  /\ UNCHANGED <<callerLine, worker, cmdQ, respQ, proc, hasDisconnectListener, thread, term,
                 out, handled, ticks, destroyRet, resizes,
                 diff>>

(* The "disconnect" event of worker w, after its last message *)
Disconnect(w) ==
  /\ proc[w] = "exited"
  /\ hasDisconnectListener[w]
  /\ respQ[w] = <<>>
  /\ worker' = NoWorker
  /\ hasDisconnectListener' = [hasDisconnectListener EXCEPT ![w] = FALSE]
  /\ UNCHANGED <<callerLine, lastError, calls, cmdQ, respQ, proc, thread, term, out, handled,
                 ticks, destroyRet, resizes,
                 diff>>

----------------------------------------------------------------------------
(* The worker process: process.on("message") *)

Response(status, id, data) == [status |-> status, uuid |-> id, data |-> data]

(* A try whose catch is never entered *)
ThrowsNever(msg) == FALSE

(* Whether executing msg throws inside the try *)
Throws(msg) ==
  msg.cmd \in {"UPDATE", "APPEND"} /\ ~processTextToLineObjects(msg.text).ok

(* The engine after the command of msg *)
Execute(e, msg) ==
  CASE Throws(msg) -> e
    [] msg.cmd = "START" -> start(e, msg.options)
    [] msg.cmd = "STOP" -> stop(e, msg.commit)
    [] msg.cmd = "UPDATE" -> update(e, msg.text)
    [] msg.cmd = "APPEND" -> update(e, msg.text)
    [] msg.cmd = "RENDER" ->
         render(IF msg.force = TRUE THEN resetRender(e) ELSE e)
    [] OTHER -> e

(* A worker that answers DESTROY as well *)
ResponsesDestroyAnswered(e, msg) ==
  CASE Throws(msg) -> <<Response("error", msg.uuid, <<>>)>>
    [] msg.cmd = "START" -> <<Response("started", msg.uuid, <<>>)>>
    [] msg.cmd = "STOP" -> <<Response("stopped", msg.uuid, <<>>)>>
    [] msg.cmd = "DESTROY" -> <<Response("destroyed", msg.uuid, <<>>)>>
    [] msg.cmd = "UPDATE" -> <<Response("updated", msg.uuid, <<>>)>>
    [] msg.cmd = "APPEND" -> <<Response("appended", msg.uuid, <<>>)>>
    [] msg.cmd = "RENDER" -> <<Response("rendered", msg.uuid, <<>>)>>
    [] msg.cmd = "RENDER_QUEUE" ->
         <<Response("renderQueue", msg.uuid, getLines(e))>>
    [] OTHER -> <<Response("error", msg.uuid, <<>>)>>

(* The responses process.send is called with for msg, in engine state e *)
Responses(e, msg) ==
  CASE Throws(msg) -> <<Response("error", msg.uuid, <<>>)>>
    [] msg.cmd = "START" -> <<Response("started", msg.uuid, <<>>)>>
    [] msg.cmd = "STOP" -> <<Response("stopped", msg.uuid, <<>>)>>
    [] msg.cmd = "DESTROY" -> <<>>
    [] msg.cmd = "UPDATE" -> <<Response("updated", msg.uuid, <<>>)>>
    [] msg.cmd = "APPEND" -> <<Response("appended", msg.uuid, <<>>)>>
    [] msg.cmd = "RENDER" -> <<Response("rendered", msg.uuid, <<>>)>>
    [] msg.cmd = "RENDER_QUEUE" ->
         <<Response("renderQueue", msg.uuid, getLines(e))>>
    [] OTHER -> <<Response("error", msg.uuid, <<>>)>>

(* Worker w receives the next command *)
EngineMessage(w) ==
  /\ proc[w] \in {"running", "killed"}
  /\ cmdQ[w] # <<>>
  /\ LET msg == Head(cmdQ[w])
         e == Execute(Engine(w), msg)
         rs == Responses(Engine(w), msg)
     IN  /\ thread' = [thread EXCEPT ![w] = e.th]
         /\ term' = e.term
         /\ out' = e.out
         /\ respQ' = [respQ EXCEPT ![w] = @ \o rs]
         /\ handled' = [handled EXCEPT ![w] = Append(@,
                         [cmd |-> msg.cmd, uuid |-> msg.uuid, responses |-> rs])]
         /\ proc' = IF msg.cmd = "DESTROY" THEN [proc EXCEPT ![w] = "killed"] ELSE proc
  /\ cmdQ' = [cmdQ EXCEPT ![w] = Tail(@)]
  /\ UNCHANGED <<callerLine, worker, lastError, calls, hasDisconnectListener, ticks, destroyRet, resizes,
                 diff>>

(* The interval of worker w ticks: updateSpinner() *)
Tick(w) ==
  /\ ticks < MaxTicks
  /\ proc[w] \in {"running", "killed"}
  /\ thread[w].renderInterval
  /\ LET e == updateSpinner(Engine(w))
     IN  /\ thread' = [thread EXCEPT ![w] = e.th]
         /\ term' = e.term
         /\ out' = e.out
  /\ ticks' = ticks + 1
  /\ UNCHANGED <<callerLine, worker, lastError, calls, cmdQ, respQ, proc,
                 hasDisconnectListener, handled, destroyRet, resizes,
                 diff>>

(* Worker w is sent SIGTERM or SIGINT from outside *)
Signal(w) ==
  /\ proc[w] = "running"
  /\ proc' = [proc EXCEPT ![w] = "killed"]
  /\ UNCHANGED <<callerLine, worker, lastError, calls, cmdQ, respQ, hasDisconnectListener,
                 thread, term, out, handled, ticks, destroyRet, resizes,
                 diff>>

(* A process that exits without running the exit hook *)
ExitHookNoStop(w) ==
  /\ proc[w] = "killed"
  /\ proc' = [proc EXCEPT ![w] = "exited"]
  /\ cmdQ' = [cmdQ EXCEPT ![w] = <<>>]
  /\ UNCHANGED <<callerLine, worker, lastError, calls, respQ, hasDisconnectListener, handled,
                 ticks, destroyRet, resizes, diff, thread, term, out>>

(* The exit hook of worker w runs stop(), and the process exits *)
ExitHook(w) ==
  /\ proc[w] = "killed"
  /\ LET e == stop(Engine(w), TRUE)
     IN  /\ thread' = [thread EXCEPT ![w] = e.th]
         /\ term' = e.term
         /\ out' = e.out
  /\ proc' = [proc EXCEPT ![w] = "exited"]
  /\ cmdQ' = [cmdQ EXCEPT ![w] = <<>>]
  /\ UNCHANGED <<callerLine, worker, lastError, calls, respQ, hasDisconnectListener, handled,
                 ticks, destroyRet, resizes,
                 diff>>

(* The terminal is resized *)
Resize(width) ==
  /\ resizes < MaxResizes
  /\ width # term.width
  /\ term' = [term EXCEPT !.width = width]
  /\ resizes' = resizes + 1
  /\ UNCHANGED <<callerLine, worker, lastError, calls, cmdQ, respQ, proc,
                 hasDisconnectListener, thread, out, handled, ticks, destroyRet,
                 diff>>

----------------------------------------------------------------------------
(* The specification: the adapter is constructed (its constructor starts   *)
(* worker 1), the terminal is empty with the cursor at the start of a row  *)

InitialWidth == CHOOSE w \in Widths : \A v \in Widths : w <= v

Init ==
  /\ worker = 1
  /\ lastError = NoError
  /\ calls = <<>>
  /\ cmdQ = [w \in Workers |-> <<>>]
  /\ respQ = [w \in Workers |-> <<>>]
  /\ proc = [w \in Workers |-> IF w = 1 THEN "running" ELSE "none"]
  /\ hasDisconnectListener = [w \in Workers |-> w = 1]
  /\ thread = [w \in Workers |-> NewThread(InitialWidth)]
  /\ term = [rows |-> <<>>, line |-> 0, col |-> 0, cursorShown |-> TRUE,
             width |-> InitialWidth]
  /\ out = <<>>
  /\ handled = [w \in Workers |-> <<>>]
  /\ ticks = 0
  /\ destroyRet = "none"
  /\ resizes = 0
  /\ diff = NoDiff
  /\ callerLine = InitialLine

(* The promise-returning methods, with arguments from the given sets *)
Methods(options, commits, contents, forces) ==
  \/ \E o \in options : Start(o)
  \/ \E commit \in commits : Stop(commit)
  \/ \E t \in contents : Update(t)
  \/ \E t \in contents : AppendLines(t)
  \/ \E force \in forces : ForceRender(force)
  \/ GetRenderQueue
  \/ SendUnknown

(* No call is awaiting its response *)
NoPending == \A c \in DOMAIN calls : calls[c].st # "pending"

(* The session specification: one worker, a caller that awaits every call  *)
(* before the next and an engine that answers before any timeout, every    *)
(* content and option, the spinner's ticks and resizes of the terminal     *)
Next ==
  \/ /\ Len(calls) < MaxSessionCalls
     /\ NoPending
     /\ Methods(OptionSets, BOOLEAN, Contents, BOOLEAN)
  \/ \E w \in Workers : WorkerMessage(w)
  \/ \E w \in Workers : EngineMessage(w)
  \/ \E w \in Workers : Tick(w)
  \/ \E width \in Widths : Resize(width)

Spec == Init /\ [][Next]_vars

(* The channel specification: one worker, calls that overlap, responses    *)
(* and timeouts in any order, at a constant width and with no spinner      *)
ChannelContents == {Str(<<"a", "b">>), Null}

NextChannel ==
  \/ /\ Len(calls) < MaxCalls
     /\ Methods({<<>>}, {TRUE}, ChannelContents, {TRUE})
  \/ \E w \in Workers : WorkerMessage(w)
  \/ \E c \in DOMAIN calls : Timeout(c)
  \/ \E w \in Workers : EngineMessage(w)

SpecChannel == Init /\ [][NextChannel]_vars

(* The timer of send() fires when its time has come *)
SpecChannelLive ==
  SpecChannel /\ \A c \in 1..MaxCalls : WF_vars(Timeout(c))

(* The worker specification: workers are destroyed, killed and started     *)
(* around the calls of a caller that awaits each call before the next      *)
NextWorker ==
  \/ /\ Len(calls) < MaxWorkerCalls
     /\ NoPending
     /\ Methods({<<>>}, {TRUE}, ChannelContents, {FALSE})
  \/ Destroy
  \/ StartWorker
  \/ \E w \in Workers : WorkerMessage(w)
  \/ \E c \in DOMAIN calls : Timeout(c)
  \/ \E w \in Workers : Disconnect(w)
  \/ \E w \in Workers : EngineMessage(w)
  \/ \E w \in Workers : Signal(w)
  \/ \E w \in Workers : ExitHook(w)

SpecWorker == Init /\ [][NextWorker]_vars

-----------------------------------------------------------------------------
(* Properties *)

(* The step in which worker w receives a command cmd *)
Handles(w, cmd) ==
  /\ handled'[w] # handled[w]
  /\ handled'[w][Len(handled'[w])].cmd = cmd

(* The methods that return a boolean *)
BooleanOps == {"START", "STOP", "UPDATE", "APPEND", "RENDER"}

(* The commands the worker answers *)
AnsweredCommands == BooleanOps \cup {"RENDER_QUEUE"}

(* C1: when an ACTIVE engine receives APPEND with a content that           *)
(* normalizes, the next frame afterwards is the next frame before followed *)
(* by the content's lines.                                                 *)
C1_AppendExtendsNextFrame ==
  [][\A w \in Workers :
       (/\ Handles(w, "APPEND")
        /\ thread[w].active
        /\ processTextToLineObjects(Head(cmdQ[w]).text).ok)
       => thread'[w].nextRender =
            thread[w].nextRender \o processTextToLineObjects(Head(cmdQ[w]).text).lines
    ]_vars

(* C2: in an ACTIVE session, a getRenderQueue() that has returned, with no *)
(* later call, returned the engine's next frame.                           *)
C2_QueueReturned ==
  \A c \in DOMAIN calls :
    (/\ c = Len(calls)
     /\ calls[c].op = "RENDER_QUEUE"
     /\ calls[c].st = "resolved"
     /\ calls[c].by = "response"
     /\ thread[calls[c].w].active)
    => calls[c].data = thread[calls[c].w].nextRender

(* C3: no promise a method returns is ever rejected.                       *)
C3_PromisesNeverReject ==
  \A c \in DOMAIN calls : calls[c].st # "rejected"

(* C4: a call that awaits its response is resolved in the end, and a call  *)
(* the timeout resolved returned false or [] and left lastError set.       *)
C4_TimeoutLiveness ==
  /\ \A c \in 1..MaxCalls :
       (c \in DOMAIN calls /\ calls[c].st = "pending")
         ~> (c \in DOMAIN calls /\ calls[c].st = "resolved")
  /\ [](\A c \in DOMAIN calls :
          calls[c].by = "timeout"
          => /\ calls[c].st = "resolved"
             /\ ~calls[c].ret
             /\ calls[c].data = <<>>
             /\ calls[c].setError
             /\ lastError # NoError)

(* A call the timeout resolved while the worker never received its command *)
C4_Witness ==
  \E c \in DOMAIN calls :
    /\ calls[c].by = "timeout"
    /\ calls[c].st = "resolved"
    /\ \A i \in DOMAIN handled[calls[c].w] : handled[calls[c].w][i].uuid # c
    /\ lastError = COMMUNICATION_TIMEOUT

(* C5: a call is resolved at most once, by its response or by its timeout; *)
(* once resolved, neither its handler nor its timer is registered; a call  *)
(* its response resolved never assigns lastError, and a call its timeout   *)
(* resolved takes nothing from a later response.                           *)
C5_ResolvedOnce ==
  \A c \in DOMAIN calls :
    /\ calls[c].resolves <= 1
    /\ calls[c].st = "resolved"
       => /\ calls[c].by \in {"response", "timeout"}
          /\ calls[c].resolves = 1
          /\ ~calls[c].listener
          /\ ~calls[c].timer
    /\ calls[c].by = "response" => ~calls[c].setError
    /\ calls[c].by = "timeout"
       => /\ calls[c].respStatus = "none"
          /\ ~calls[c].ret
          /\ calls[c].data = <<>>

(* A call the timeout resolved, whose command the worker then answered,    *)
(* the answer emitted and dropped                                          *)
C5_Witness ==
  \E c \in DOMAIN calls :
    /\ calls[c].by = "timeout"
    /\ \E i \in DOMAIN handled[calls[c].w] :
         /\ handled[calls[c].w][i].uuid = c
         /\ Len(handled[calls[c].w][i].responses) = 1
    /\ respQ[calls[c].w] = <<>>
    /\ \A d \in DOMAIN calls : calls[d].st = "resolved"

(* C6: a call that its response resolved was resolved by the response      *)
(* carrying its own correlation id.                                        *)
C6_CorrelatedByUuid ==
  \A c \in DOMAIN calls :
    calls[c].by = "response" => calls[c].respUuid = c

(* A call whose handler ran for another call's response before its own *)
C6_Witness ==
  \E c \in DOMAIN calls :
    /\ calls[c].by = "response"
    /\ calls[c].seen >= 2
    /\ calls[c].respUuid = c

(* C7: for each command it receives the worker sends at most one response, *)
(* with the command's correlation id: one for START, STOP, UPDATE, APPEND, *)
(* RENDER and RENDER_QUEUE, faulting or not, and none for DESTROY.         *)
C7_OneResponsePerCommand ==
  \A w \in Workers : \A i \in DOMAIN handled[w] :
    /\ Len(handled[w][i].responses) <= 1
    /\ \A j \in DOMAIN handled[w][i].responses :
         handled[w][i].responses[j].uuid = handled[w][i].uuid
    /\ handled[w][i].cmd \in AnsweredCommands => Len(handled[w][i].responses) = 1
    /\ handled[w][i].cmd = "DESTROY" => Len(handled[w][i].responses) = 0

(* The worker answered a faulting UPDATE with an error and received a      *)
(* DESTROY                                                                 *)
C7_Witness ==
  \E i, j \in DOMAIN handled[1] :
    /\ handled[1][i].cmd = "UPDATE"
    /\ Len(handled[1][i].responses) = 1
    /\ handled[1][i].responses[1].status = "error"
    /\ handled[1][j].cmd = "DESTROY"
    /\ handled[1][j].responses = <<>>

(* C8: a method called while the adapter has no worker returns false or [] *)
(* at once and sets lastError, with no message sent and neither a handler  *)
(* nor a timer registered.                                                 *)
C8_NoWorkerFailsAtOnce ==
  [][(worker = NoWorker /\ Len(calls') > Len(calls))
     => /\ calls'[Len(calls')].st = "resolved"
        /\ ~calls'[Len(calls')].ret
        /\ calls'[Len(calls')].data = <<>>
        /\ lastError' = NO_WORKER
        /\ cmdQ' = cmdQ
        /\ ~calls'[Len(calls')].sent
        /\ ~calls'[Len(calls')].listener
        /\ ~calls'[Len(calls')].timer
    ]_vars

(* A method was called after the worker had exited and disconnected, with  *)
(* no destroy()                                                            *)
C8_Witness ==
  \E c \in DOMAIN calls :
    /\ calls[c].by = "noworker"
    /\ worker = NoWorker
    /\ destroyRet = "none"
    /\ proc[1] = "exited"
    /\ lastError = NO_WORKER

(* C9: a boolean method that returned false assigned lastError.            *)
C9_FailureSetsLastError ==
  \A c \in DOMAIN calls :
    (calls[c].st = "resolved" /\ calls[c].op \in BooleanOps /\ ~calls[c].ret)
    => (calls[c].setError /\ lastError # NoError)

(* C10: when an ACTIVE engine receives START, its fields (state, options,  *)
(* frames, cursor belief) and the terminal stay as they are and nothing is *)
(* written.                                                                *)
C10_StartOnActiveIsNoOp ==
  [][\A w \in Workers :
       (Handles(w, "START") /\ thread[w].active)
       => (thread'[w] = thread[w] /\ term' = term /\ out' = <<>>)
    ]_vars

(* The worker received START twice with no STOP between, the session still *)
(* ACTIVE and a frame rendered                                             *)
C10_Witness ==
  \E i, j \in DOMAIN handled[1] :
    /\ i < j
    /\ handled[1][i].cmd = "START"
    /\ handled[1][j].cmd = "START"
    /\ \A k \in (i + 1)..(j - 1) : handled[1][k].cmd # "STOP"
    /\ thread[1].active
    /\ thread[1].previousRender # <<>>

(* The responses worker w gave to the command it received in this step *)
Answers(w) == handled'[w][Len(handled'[w])].responses

(* C11: when an INACTIVE engine receives STOP, its fields and the terminal *)
(* stay as they are, nothing is written, and the answer is one for which   *)
(* the caller's stop() returns false.                                      *)
C11_StopWhileInactive ==
  [][\A w \in Workers :
       (Handles(w, "STOP") /\ ~thread[w].active)
       => /\ thread'[w] = thread[w]
          /\ term' = term
          /\ out' = <<>>
          /\ \A j \in DOMAIN Answers(w) : ~ReturnOf("STOP", Answers(w)[j].status)
    ]_vars

(* C12: when an INACTIVE engine receives UPDATE, APPEND or RENDER, its     *)
(* fields (the next frame and the timer among them) and the terminal stay  *)
(* as they are and nothing is written.                                     *)
C12_InactiveCommandsAreNoOps ==
  [][\A w \in Workers :
       ((\E cmd \in {"UPDATE", "APPEND", "RENDER"} : Handles(w, cmd))
        /\ ~thread[w].active)
       => (thread'[w] = thread[w] /\ term' = term /\ out' = <<>>)
    ]_vars

(* The terminal after a stop that commits with a last render cycle: the    *)
(* next frame is rendered while the session is still ACTIVE, the cursor    *)
(* goes below the output and is shown again                                *)
CommittedTerminal(e) == ShowCursor(MoveBelow(render(e))).term

(* C13: when an ACTIVE engine receives STOP with commit = true, the        *)
(* terminal afterwards is the one a last render cycle of the next frame at *)
(* the current width leaves, with the cursor below the committed output.   *)
C13_CommitRendersLastFrame ==
  [][\A w \in Workers :
       (Handles(w, "STOP") /\ thread[w].active /\ Head(cmdQ[w]).commit = TRUE)
       => term' = CommittedTerminal(Engine(w))
    ]_vars

(* C14: a STOP with commit = FALSE handled by an ACTIVE engine, after any  *)
(* updates, appends, renders and ticks (the terminal was never resized),   *)
(* empties the next frame, puts the real cursor on row 0, column 0 of the  *)
(* session and leaves no row of the session on the screen.                 *)
C14_DiscardErasesSession ==
  [][\A w \in Workers :
       (/\ Handles(w, "STOP") /\ thread[w].active
        /\ Head(cmdQ[w]).commit = FALSE /\ resizes = 0)
       => /\ thread'[w].nextRender = <<>>
          /\ term'.line = 0 /\ term'.col = 0
          /\ term'.rows = <<>>]_vars

-----------------------------------------------------------------------------
(* The exit specification: one worker whose sessions end by stop() with    *)
(* either commit value, by destroy(), or by a signal from outside and the  *)
(* exit hook, at a constant width                                          *)

(* The calls of the caller in the exit specification *)
MaxExitCalls == 2

ExitContents ==
  {Obj([text |-> SPINNER \o <<"b">>]), Str(SPINNER \o SPINNER), Null}

NextExit ==
  \/ /\ Len(calls) < MaxExitCalls
     /\ NoPending
     /\ Methods(OptionSets, BOOLEAN, ExitContents, {FALSE})
  \/ Destroy
  \/ \E w \in Workers : WorkerMessage(w)
  \/ \E w \in Workers : EngineMessage(w)
  \/ \E w \in Workers : Tick(w)
  \/ \E w \in Workers : Disconnect(w)
  \/ \E w \in Workers : Signal(w)
  \/ \E w \in Workers : ExitHook(w)

SpecExit == Init /\ [][NextExit]_vars

(* C15: every step in which an engine goes from ACTIVE to INACTIVE (a stop *)
(* with either commit value, or the exit hook) sets the raw mode of the    *)
(* input to what it was when the session started (wasRaw, taken by start), *)
(* and shows the cursor when start had hidden it.                          *)
C15_StopRestoresInput ==
  [][\A w \in Workers :
       (thread[w].active /\ ~thread'[w].active)
       => /\ thread[w].wasRaw # "null"
          /\ thread'[w].isRaw = (thread[w].wasRaw = "true")
          /\ thread[w].cursorHidden => term'.cursorShown
          /\ ~thread'[w].cursorHidden]_vars

(* A session started with disableInput (the options that also set          *)
(* repaintOnResize) has been stopped by STOP                               *)
C15_Witness ==
  /\ Len(handled[1]) >= 2
  /\ handled[1][1].cmd = "START"
  /\ handled[1][2].cmd = "STOP"
  /\ thread[1].repaintOnResize
  /\ ~thread[1].active
  /\ ~thread[1].isRaw

(* The rows a frame shows: the visible characters of each row *)
ShownRows(frame) ==
  TrimRows([i \in 1..Len(frame) |-> TrimRight(stripAnsi(frame[i].text))])

(* C16: a RENDER with force = TRUE handled by an ACTIVE engine, whatever   *)
(* the rows of its previous render, leaves on the screen exactly the rows  *)
(* of the next frame, each on its own row of the session.                  *)
C16_ForceRenderRepaints ==
  [][\A w \in Workers :
       (Handles(w, "RENDER") /\ thread[w].active /\ Head(cmdQ[w]).force = TRUE)
       => term'.rows = ShownRows(NewFrame(Engine(w)))]_vars

(* Worker w has received DESTROY *)
Destroyed(w) == \E i \in DOMAIN handled[w] : handled[w][i].cmd = "DESTROY"

(* The step is a call of destroy() *)
DestroyCalled ==
  \/ destroyRet' # destroyRet
  \/ worker # NoWorker /\ worker' = NoWorker
       /\ hasDisconnectListener' = hasDisconnectListener

(* C17: a worker that received DESTROY has, when its process has exited,   *)
(* no ACTIVE session, no timer, the raw mode off and the cursor not        *)
(* hidden; the step in which it exits with a session ACTIVE stops that     *)
(* session as stop(true) does: the rows on the screen are kept, the cursor *)
(* is shown again, the raw mode is what it was at start.  destroy() with a *)
(* worker clears the worker reference and returns true without a call      *)
(* being registered; with no worker it returns false and sends nothing.    *)
C17_DestroyStopsSession ==
  /\ [](\A w \in Workers :
          (proc[w] = "exited" /\ Destroyed(w))
          => /\ ~thread[w].active /\ ~thread[w].renderInterval
             /\ thread[w].intervals = 0
             /\ ~thread[w].isRaw /\ ~thread[w].cursorHidden)
  /\ [][\A w \in Workers :
          (Destroyed(w) /\ proc[w] # "exited" /\ proc'[w] = "exited"
             /\ thread[w].active)
          => /\ term'.rows = term.rows
             /\ thread[w].cursorHidden => term'.cursorShown
             /\ thread'[w].isRaw = (thread[w].wasRaw = "true")]_vars
  /\ [][DestroyCalled
          => IF worker # NoWorker
             THEN /\ worker' = NoWorker /\ destroyRet' = "true"
                  /\ calls' = calls /\ lastError' = lastError
             ELSE destroyRet' = "false" /\ cmdQ' = cmdQ]_vars

(* destroy() returned true for a worker with an ACTIVE session and a       *)
(* running timer, which received DESTROY and has exited                    *)
C17_Witness ==
  /\ destroyRet = "true"
  /\ proc[1] = "exited"
  /\ Len(handled[1]) = 3
  /\ handled[1][1].cmd = "START"
  /\ handled[1][2].cmd = "UPDATE"
  /\ handled[1][3].cmd = "DESTROY"
  /\ thread[1].previousSpinner # <<>>
  /\ term.rows # <<>>

-----------------------------------------------------------------------------
(* The diff specification: getChanges is called on one pair of strings,    *)
(* and its changes are written one by one, as the loop of render writes    *)
(* them, to a row that holds the original's visible text.  The pairs are   *)
(* any two strings of up to MaxDiffLen tokens of letters, blanks and a     *)
(* colour code, and any unstyled original with any styled target of up to  *)
(* MaxLongLen tokens of letters and a colour code                          *)

DiffAlphabet == {"a", "b", " ", RED}

DiffStrings == UNION {[1..n -> DiffAlphabet] : n \in 0..MaxDiffLen}

PlainStrings == UNION {[1..n -> {"a", "b"}] : n \in 0..MaxLongLen}

StyledStrings == UNION {[1..n -> {"a", "b", RED}] : n \in 0..MaxLongLen}

DiffPairs == (DiffStrings \X DiffStrings) \cup (PlainStrings \X StyledStrings)

InitDiff ==
  /\ worker = 1
  /\ lastError = NoError
  /\ calls = <<>>
  /\ cmdQ = [w \in Workers |-> <<>>]
  /\ respQ = [w \in Workers |-> <<>>]
  /\ proc = [w \in Workers |-> IF w = 1 THEN "running" ELSE "none"]
  /\ hasDisconnectListener = [w \in Workers |-> w = 1]
  /\ thread = [w \in Workers |-> NewThread(InitialWidth)]
  /\ term = [rows |-> <<>>, line |-> 0, col |-> 0, cursorShown |-> TRUE,
             width |-> InitialWidth]
  /\ out = <<>>
  /\ handled = [w \in Workers |-> <<>>]
  /\ ticks = 0
  /\ destroyRet = "none"
  /\ resizes = 0
  /\ \E pair \in DiffPairs :
       diff = [NoDiff EXCEPT !.phase = "input", !.original = pair[1],
                             !.target = pair[2]]
  /\ callerLine = InitialLine

(* The row after the cursor is put at column index of it and text is       *)
(* written                                                                 *)
RowWrite(row, index, text) ==
  RowAt(TermWrite([rows |-> <<row>>, line |-> 0, col |-> index,
                   cursorShown |-> TRUE, width |-> InitialWidth], text).rows, 0)

(* getChanges(original, target, 0) is computed *)
RunGetChanges ==
  /\ diff.phase = "input"
  /\ diff' = [diff EXCEPT !.phase = "diffed",
                          !.changes = getChanges(diff.original, diff.target, 0),
                          !.row = TrimRight(stripAnsi(diff.original))]
  /\ UNCHANGED <<callerLine, worker, lastError, calls, cmdQ, respQ, proc,
                 hasDisconnectListener, thread, term, out, handled, ticks,
                 destroyRet, resizes>>

(* The next change is written to the row *)
ApplyNextChange ==
  /\ diff.phase = "diffed"
  /\ diff.applied < Len(diff.changes)
  /\ diff' = [diff EXCEPT
                !.applied = @ + 1,
                !.row = RowWrite(@, diff.changes[diff.applied + 1].index,
                                 diff.changes[diff.applied + 1].text)]
  /\ UNCHANGED <<callerLine, worker, lastError, calls, cmdQ, respQ, proc,
                 hasDisconnectListener, thread, term, out, handled, ticks,
                 destroyRet, resizes>>

NextDiff == RunGetChanges \/ ApplyNextChange

SpecDiff == InitDiff /\ [][NextDiff]_vars

(* Every change of the run has been written *)
AllApplied == diff.phase = "diffed" /\ diff.applied = Len(diff.changes)

(* C18: for all strings A and B, once every change of getChanges(A, B, 0)  *)
(* has been written in order to a row that held the visible text of A, the *)
(* row holds the visible text of B (rows compared up to the blanks at      *)
(* their end, which an erased cell cannot be told from).                   *)
C18_DiffRoundTrip ==
  AllApplied => diff.row = TrimRight(stripAnsi(diff.target))

(* C19: whenever the visible text of B is shorter than the visible text of *)
(* A, getChanges(A, B, line) is not empty and the text of its last change  *)
(* holds ERASE_LINE_END.                                                   *)
C19_ShrinkErases ==
  (diff.phase = "diffed"
     /\ Len(stripAnsi(diff.target)) < Len(stripAnsi(diff.original)))
  => /\ diff.changes # <<>>
     /\ \E i \in DOMAIN diff.changes[Len(diff.changes)].text :
          diff.changes[Len(diff.changes)].text[i] = ERASE_LINE_END

(* A shorter target whose last change also writes a visible character *)
C19_Witness ==
  /\ diff.phase = "diffed"
  /\ diff.target # <<>>
  /\ Len(stripAnsi(diff.target)) < Len(stripAnsi(diff.original))
  /\ diff.changes # <<>>
  /\ stripAnsi(diff.changes[Len(diff.changes)].text) # <<>>

(* The engine of worker w when the render of the UPDATE it is about to     *)
(* receive begins: the next frame is the content of the message            *)
Updated(w) ==
  startTimer([Engine(w) EXCEPT
    !.th.nextRender = processTextToLineObjects(Head(cmdQ[w]).text).lines])

(* One change per row of the frame that has text, the whole row at index 0 *)
WholeRows(frame) ==
  {[line |-> r - 1, index |-> 0, text |-> frame[r].text] :
     r \in {q \in DOMAIN frame : frame[q].text # <<>>}}

(* The list holds exactly the changes of the set, each once *)
ExactlyOnce(changes, set) ==
  /\ {changes[i] : i \in DOMAIN changes} = set
  /\ Len(changes) = Cardinality(set)

(* Worker w receives an UPDATE while ACTIVE with an empty previous frame,  *)
(* as after start                                                          *)
FirstUpdate(w) ==
  /\ Handles(w, "UPDATE")
  /\ ~Throws(Head(cmdQ[w]))
  /\ thread[w].active
  /\ thread[w].previousRender = <<>>

(* C20 as stated: on the first render after start, with an empty previous *)
(* frame, the changes of update(content) are exactly one change {line r,   *)
(* index 0, text the whole row} for every row r of the new frame that has  *)
(* text, and no other.                                                     *)
C20_FirstRenderAsStated ==
  [][\A w \in Workers :
       FirstUpdate(w)
       => ExactlyOnce(RenderChanges(Updated(w)), WholeRows(NewFrame(Updated(w))))]_vars

(* C20: on the first render after start, with an empty previous frame and  *)
(* no line of the content flagged force, the changes of update(content)    *)
(* are exactly one change {line r, index 0, text the whole row} for every  *)
(* row r of the new frame that has text, and no other.                     *)
C20_FirstRenderWholeRows ==
  [][\A w \in Workers :
       (FirstUpdate(w)
          /\ \A r \in DOMAIN NewFrame(Updated(w)) : ~NewFrame(Updated(w))[r].force)
       => ExactlyOnce(RenderChanges(Updated(w)), WholeRows(NewFrame(Updated(w))))]_vars

(* The first update of a session has put two rows, none forced, on the     *)
(* screen                                                                  *)
C20_Witness ==
  /\ Len(handled[1]) = 2
  /\ handled[1][1].cmd = "START"
  /\ handled[1][2].cmd = "UPDATE"
  /\ thread[1].active
  /\ Len(thread[1].previousRender) = 2
  /\ \A i \in DOMAIN thread[1].nextRender : thread[1].nextRender[i].force = FALSE
  /\ Len(term.rows) = 2

-----------------------------------------------------------------------------
(* Properties of getChanges, over the runs of the diff specification *)

(* The string holds no escape sequence *)
Unstyled(s) == \A i \in DOMAIN s : ~IsAnsi(s[i])

(* The first column at which two different strings of one length differ *)
FirstDifference(a, b) ==
  CHOOSE k \in 0..(Len(a) - 1) :
    a[k + 1] # b[k + 1] /\ \A j \in 0..(k - 1) : a[j + 1] = b[j + 1]

(* original and target are unstyled, of one length, and differ on every    *)
(* column from the first at which they differ                              *)
PartialEdit ==
  /\ diff.phase = "diffed"
  /\ Unstyled(diff.original) /\ Unstyled(diff.target)
  /\ Len(diff.original) = Len(diff.target)
  /\ diff.original # diff.target
  /\ \A j \in FirstDifference(diff.original, diff.target)..(Len(diff.target) - 1) :
       diff.original[j + 1] # diff.target[j + 1]

(* The target from column k on *)
From(s, k) == SubSeq(s, k + 1, Len(s))

(* C21 as stated: for unstyled strings of one length that agree up to      *)
(* column k - 1 and differ on every column from k on, getChanges returns   *)
(* the one change {index k, text the target from column k on}.             *)
C21_PartialEditAsStated ==
  PartialEdit
  => diff.changes =
       <<[line |-> 0, index |-> FirstDifference(diff.original, diff.target),
          text |-> From(diff.target, FirstDifference(diff.original, diff.target))]>>

(* C21: for unstyled strings of one length that agree up to column k - 1   *)
(* and differ on every column from k on, getChanges returns the one change *)
(* {index k, text RESET_STYLE and the target from column k on}, with no    *)
(* erase, when the target has a character other than a blank from column k *)
(* on, and no change when it has none.                                     *)
C21_PartialEdit ==
  PartialEdit
  => diff.changes =
       IF NotUseless(From(diff.target, FirstDifference(diff.original, diff.target)))
       THEN <<[line |-> 0, index |-> FirstDifference(diff.original, diff.target),
               text |-> <<RESET_STYLE>> \o
                 From(diff.target, FirstDifference(diff.original, diff.target))]>>
       ELSE <<>>

(* A partial edit of a string of three columns from column 1 on, with one  *)
(* change returned                                                         *)
C21_Witness ==
  /\ PartialEdit
  /\ Len(diff.target) = 3
  /\ FirstDifference(diff.original, diff.target) = 1
  /\ Len(diff.changes) = 1

(* The style sequence in force at column i of a string with code map m:    *)
(* the codes of the last position up to i that has any, none before the    *)
(* first                                                                   *)
ActiveStyle(m, i) ==
  LET ps == {p \in DOMAIN m : p <= i /\ m[p] # <<>>}
  IN  IF ps = {} THEN <<>> ELSE m[CHOOSE p \in ps : \A q \in ps : q <= p]

(* original and target show the same text, which is not blank, in styles   *)
(* that differ at some column                                              *)
StyleOnlyChange ==
  /\ diff.phase = "diffed"
  /\ stripAnsi(diff.original) = stripAnsi(diff.target)
  /\ NotUseless(diff.target)
  /\ \E i \in 0..(Len(stripAnsi(diff.target)) - 1) :
       ActiveStyle(CodeMap(diff.original), i) # ActiveStyle(CodeMap(diff.target), i)

(* C22: when original and target have the same visible text, with a        *)
(* character other than a blank, and the style in force differs at some    *)
(* column, getChanges returns a change that writes visible text.           *)
C22_StyleOnlyChange ==
  StyleOnlyChange
  => \E i \in DOMAIN diff.changes : stripAnsi(diff.changes[i].text) # <<>>

-----------------------------------------------------------------------------
(* Properties of the session engine *)

(* C23: while a session is ACTIVE and the terminal has not been resized,   *)
(* the cursor position the engine stores (cursorLine, cursorIndex) is the  *)
(* position of the real cursor, relative to the start of the session,      *)
(* after every command and tick.                                           *)
C23_CursorBelief ==
  \A w \in Workers :
    (thread[w].active /\ resizes = 0)
    => (thread[w].cursorLine = term.line /\ thread[w].cursorIndex = term.col)

(* The column at which the text of a change ends: where an erase at the    *)
(* end of the text takes effect                                            *)
EndColumn(c) == c.index + Len(stripAnsi(c.text))

(* s is the start of t, and shorter *)
StrictPrefix(s, t) == Len(s) < Len(t) /\ s = SubSeq(t, 1, Len(s))

(* C24: when the visible target is shorter than the visible original, the  *)
(* erase of the last change takes effect at the column just after the      *)
(* target, so no column of the target is cleared; when the target is the   *)
(* start of the original, the one change returned is the erase at that     *)
(* column.                                                                 *)
C24_ErasePosition ==
  (diff.phase = "diffed"
     /\ Len(stripAnsi(diff.target)) < Len(stripAnsi(diff.original)))
  => /\ diff.changes # <<>>
     /\ EndColumn(diff.changes[Len(diff.changes)]) = Len(stripAnsi(diff.target))
     /\ StrictPrefix(diff.target, diff.original)
        => diff.changes = <<[line |-> 0, index |-> Len(stripAnsi(diff.target)),
                             text |-> <<ERASE_LINE_END>>]>>

(* The visible texts and code maps of the run *)
So == stripAnsi(diff.original)

St == stripAnsi(diff.target)

Om == CodeMap(diff.original)

Tm == CodeMap(diff.target)

(* Column g is a gap met with a change open: it is not divergent, the      *)
(* column before it is, and a column follows it in the target              *)
GapAt(g) ==
  /\ diff.phase = "diffed"
  /\ g >= 1 /\ g + 1 < Len(St)
  /\ Divergent(So, St, Om, Tm, g - 1)
  /\ ~Divergent(So, St, Om, Tm, g)

(* The characters of original and target differ at column i *)
CharDiffers(i) == i >= Len(So) \/ St[i + 1] # So[i + 1]

(* The change is not closed at the gap g: no change starts at the gap or   *)
(* at the column after it, and, unless the three columns are blank (a      *)
(* blank change is not kept), one change holds the column before the gap,  *)
(* the gap and the column after it                                         *)
MergedAt(g) ==
  /\ \A i \in DOMAIN diff.changes : diff.changes[i].index \notin {g, g + 1}
  /\ NotUseless(SubSeq(St, g, g + 2))
     => \E i \in DOMAIN diff.changes :
          diff.changes[i].index <= g - 1 /\ EndColumn(diff.changes[i]) >= g + 2

Columns(c) == c.index..(EndColumn(c) - 1)

(* C26: no two changes of one run of getChanges, which are changes of one  *)
(* row, write a common column, whatever the styles of original and target. *)
C26_ChangesDisjoint ==
  diff.phase = "diffed"
  => \A i, j \in DOMAIN diff.changes :
       i # j => Columns(diff.changes[i]) \cap Columns(diff.changes[j]) = {}

(* C27: no row of a frame that render has built, which it stores as the    *)
(* previous render, holds the spinner placeholder, also when a line holds  *)
(* it twice or more.                                                       *)
C27_PlaceholderReplaced ==
  \A w \in Workers :
    \A r \in DOMAIN thread[w].previousRender :
      IndexOfSpinner(thread[w].previousRender[r].text) = -1

-----------------------------------------------------------------------------
(* The timer specification: one worker and a caller that awaits every call *)
(* of start, stop, update and append before the next, with content that    *)
(* holds the spinner or not, the ticks of the interval, and a signal from  *)
(* outside with the exit hook                                              *)

(* The calls of the caller in the timer specification *)
MaxTimerCalls == 5

TimerContents == {Str(SPINNER \o <<"b">>), Str(<<"a">>)}

NextTimer ==
  \/ /\ Len(calls) < MaxTimerCalls
     /\ NoPending
     /\ \/ Start(<<>>)
        \/ \E commit \in BOOLEAN : Stop(commit)
        \/ \E t \in TimerContents : Update(t)
        \/ \E t \in TimerContents : AppendLines(t)
  \/ \E w \in Workers : WorkerMessage(w)
  \/ \E w \in Workers : EngineMessage(w)
  \/ \E w \in Workers : Tick(w)
  \/ \E w \in Workers : Signal(w)
  \/ \E w \in Workers : ExitHook(w)

SpecTimer == Init /\ [][NextTimer]_vars

(* The last command the engine of worker w handled *)
LastHandled(w) ==
  IF handled[w] = <<>> THEN "none" ELSE handled[w][Len(handled[w])].cmd

(* C28: whenever an interval of an engine is live the engine is ACTIVE,    *)
(* and every tick of the spinner is taken by an ACTIVE engine whose        *)
(* interval is registered: after stop with either commit value, or the     *)
(* exit hook, no tick fires until a later session arms the timer again.    *)
C28_TimerOnlyWhileActive ==
  /\ [](\A w \in Workers :
          (thread[w].renderInterval \/ thread[w].intervals > 0) => thread[w].active)
  /\ [][ticks' # ticks =>
          \E w \in Workers : thread[w].active /\ thread[w].renderInterval]_vars

(* The interval of a session ticked, and the session was then stopped: the *)
(* interval is cleared                                                     *)
C28_Witness ==
  \E w \in Workers :
    /\ LastHandled(w) = "STOP"
    /\ ticks > 0
    /\ ~thread[w].active
    /\ ~thread[w].renderInterval
    /\ thread[w].intervals = 0

(* C29: the timer runs only while a placeholder is eligible: whenever the  *)
(* interval of an engine is registered, some line of its next-frame list   *)
(* holds the spinner placeholder, so that an update whose lines hold no    *)
(* placeholder leaves no interval registered.                              *)
C29_TimerOnlyWithPlaceholder ==
  \A w \in Workers :
    thread[w].renderInterval => SpinnerPresent(thread[w].nextRender)

(* C30: at most one periodic timer exists at any time: the live intervals  *)
(* of an engine are one when its interval handle is set and none when it   *)
(* is not, a step creates an interval only when none is registered, and a  *)
(* step that drops the handle clears the interval it held.                 *)
C30_SingleTimer ==
  /\ [](\A w \in Workers :
          thread[w].intervals = IF thread[w].renderInterval THEN 1 ELSE 0)
  /\ [][\A w \in Workers :
          /\ thread'[w].intervals > thread[w].intervals =>
               ~thread[w].renderInterval /\ thread[w].intervals = 0
          /\ thread[w].renderInterval /\ ~thread'[w].renderInterval =>
               thread'[w].intervals = thread[w].intervals - 1]_vars

(* start, then an update with the placeholder that registers the interval  *)
(* (nothing but the spinner's row was ever written), then an append with   *)
(* the placeholder: startTimer runs with the interval registered, and one  *)
(* interval is live                                                        *)
C30_Witness ==
  \E w \in Workers :
    /\ Len(handled[w]) = 3
    /\ handled[w][1].cmd = "START"
    /\ handled[w][2].cmd = "UPDATE"
    /\ handled[w][3].cmd = "APPEND"
    /\ \A i \in DOMAIN out : out[i] # "a"
    /\ SpinnerPresent(thread[w].nextRender)
    /\ thread[w].active
    /\ thread[w].renderInterval
    /\ thread[w].intervals = 1

-----------------------------------------------------------------------------
(* Properties of the render cycle *)

(* The step is a render cycle of the ACTIVE session of worker w: an        *)
(* update or an append that does not throw, a render or a tick             *)
RenderCycle(w) ==
  /\ thread[w].active
  /\ thread'[w].active
  /\ \/ /\ \E cmd \in {"UPDATE", "APPEND", "RENDER"} : Handles(w, cmd)
        /\ ~Throws(Head(cmdQ[w]))
     \/ ticks' # ticks

(* A token that moves the cursor and writes nothing *)
IsCursorMove(t) ==
  t \in {CR, LF} \cup {"ESC[" \o ToString(n) \o k : n \in 1..20, k \in {"F", "C", "D"}}

(* The text ends with the erase of the rest of the screen: nothing is      *)
(* written after it, the cursor is only moved                              *)
ErasedLast(text) ==
  \E i \in DOMAIN text :
    /\ text[i] = ERASE_DOWN
    /\ \A j \in (i + 1)..Len(text) : IsCursorMove(text[j])

(* The step is a render with force, which forgets the previous render      *)
ForcedRender(w) == Handles(w, "RENDER") /\ Head(cmdQ[w]).force = TRUE

(* The old frame the render cycle of the step builds *)
OldFrameOf(w) ==
  IF ForcedRender(w) \/ Repaint(Engine(w)) THEN <<>> ELSE OldFrame(Engine(w))

(* The old frame of the step has more rows than the new frame, which the   *)
(* render stores                                                           *)
FrameShrinks(w) == Len(OldFrameOf(w)) > Len(thread'[w].previousRender)

(* C31: a render cycle whose old frame has more rows than the new frame    *)
(* writes the erase of the rest of the screen after the last change (or    *)
(* alone), and afterwards every row of the screen from the new frame's row *)
(* count on is blank.                                                      *)
C31_TrailingRowsErased ==
  [][\A w \in Workers :
       (RenderCycle(w) /\ FrameShrinks(w))
       => /\ ErasedLast(out')
          /\ Len(term'.rows) <= Len(thread'[w].previousRender)]_vars

(* The visible text of the last row of a stored frame, "" for an empty one *)
LastVisible(frame) ==
  IF frame = <<>> THEN <<>> ELSE stripAnsi(frame[Len(frame)].text)

(* C32: after every render cycle of an ACTIVE session the cursor is on the *)
(* last row of the new frame, at the column just after that row's visible  *)
(* text, (0,0) for an empty frame: also when no change touched the row and *)
(* when the row holds style sequences.                                     *)
C32_CursorAtFrameEnd ==
  [][\A w \in Workers :
       RenderCycle(w)
       => /\ term'.line = Max(0, Len(thread'[w].previousRender) - 1)
          /\ term'.col = Len(LastVisible(thread'[w].previousRender))]_vars

(* The spinner colour function the constructor sets *)
DefaultSpinnerColor == NewThread(InitialWidth).spinnerColor

(* C33: when an INACTIVE engine receives START, the repaintOnResize, the   *)
(* updateFrequency and the spinner colour function it has afterwards are   *)
(* those of the options of this START merged over the defaults, whatever   *)
(* the options of an earlier session were.                                 *)
C33_OptionsPerSession ==
  [][\A w \in Workers :
       (Handles(w, "START") /\ ~thread[w].active)
       => /\ thread'[w].repaintOnResize =
               Merged(Head(cmdQ[w]).options).repaintOnResize
          /\ thread'[w].updateFrequency =
               Merged(Head(cmdQ[w]).options).updateFrequency
          /\ thread'[w].spinnerColor =
               IF "spinnerColour" \in DOMAIN Head(cmdQ[w]).options
               THEN Head(cmdQ[w]).options.spinnerColour
               ELSE DefaultSpinnerColor]_vars

(* The command of msg is none the worker knows, or its execution raises a  *)
(* fault: the content of an update or append does not normalize            *)
Faulty(msg) ==
  \/ msg.cmd \notin AnsweredCommands \cup {"DESTROY"}
  \/ msg.cmd \in {"UPDATE", "APPEND"} /\ ~processTextToLineObjects(msg.text).ok

-----------------------------------------------------------------------------
(* The snapshot specification: one worker and a caller that holds one Line *)
(* object, passes it to update and append by reference, awaits every call  *)
(* and changes the fields of the object between calls                      *)

(* The calls of the caller in the snapshot specification *)
MaxSnapshotCalls == 4

(* What the caller makes of its Line object: a text with the spinner, or a *)
(* text longer than the narrowest terminal with the force flag             *)
LineObjects ==
  {InitialLine,
   Obj([text |-> SPINNER \o <<"b">>]),
   Obj([text |-> <<"a", "b", "c", "d", "e">>, force |-> TRUE])}

(* The caller assigns fields of its Line object *)
Mutate ==
  /\ NoPending
  /\ \E o \in LineObjects :
       /\ o # callerLine
       /\ callerLine' = o
  /\ UNCHANGED <<worker, lastError, calls, cmdQ, respQ, proc,
                 hasDisconnectListener, thread, term, out, handled, ticks,
                 destroyRet, resizes, diff>>

NextSnapshot ==
  \/ /\ Len(calls) < MaxSnapshotCalls
     /\ NoPending
     /\ \/ Start(<<>>)
        \/ Update(callerLine)
        \/ AppendLines(callerLine)
        \/ \E force \in BOOLEAN : ForceRender(force)
  \/ Mutate
  \/ \E w \in Workers : WorkerMessage(w)
  \/ \E w \in Workers : EngineMessage(w)
  \/ \E w \in Workers : Tick(w)

SpecSnapshot == Init /\ [][NextSnapshot]_vars

(* The lines of the caller's Line object as it is now *)
CallerLines == processTextToLineObjects(callerLine).lines

(* The next-frame list of worker w is, after the step, the lines of the    *)
(* caller's object as they are at the step                                 *)
TakesSnapshot(w) == thread'[w].nextRender = CallerLines

(* The next-frame list of worker w ends, after the step, with the lines of *)
(* the caller's object as they are at the step                             *)
AddsSnapshot(w) ==
  /\ Len(thread'[w].nextRender) >= Len(CallerLines)
  /\ SubSeq(thread'[w].nextRender,
            Len(thread'[w].nextRender) - Len(CallerLines) + 1,
            Len(thread'[w].nextRender)) = CallerLines

(* The step leaves the next-frame list of worker w as it is *)
KeepsLines(w) == thread'[w].nextRender = thread[w].nextRender

(* The step of worker w is no update, append, start or stop *)
NoTrigger(w) ==
  ~\E cmd \in {"UPDATE", "APPEND", "START", "STOP"} : Handles(w, cmd)

(* C35 as stated: the lines the engine renders change at no step but a     *)
(* command of the caller, and an ACTIVE engine holds the lines of the      *)
(* caller's object as they are at the call after an update and after a     *)
(* render (with lines passed to it before), and at the end of its list     *)
(* after an append.                                                        *)
C35_SnapshotAsStated ==
  [][\A w \in Workers :
       /\ (NoTrigger(w) /\ ~Handles(w, "RENDER")) => KeepsLines(w)
       /\ (Handles(w, "UPDATE") /\ thread[w].active) => TakesSnapshot(w)
       /\ (Handles(w, "APPEND") /\ thread[w].active) => AddsSnapshot(w)
       /\ (Handles(w, "RENDER") /\ thread[w].active /\ thread[w].nextRender # <<>>)
          => TakesSnapshot(w)]_vars

(* C35: the lines the engine renders change at no step but an update, an   *)
(* append, a start or a stop: a spinner tick and a render draw the lines   *)
(* of the last update or append, whatever the caller's object is by then.  *)
(* An ACTIVE engine holds the lines of the caller's object as they are at  *)
(* the call after an update, and at the end of its list after an append.   *)
C35_SnapshotOnUpdate ==
  [][\A w \in Workers :
       /\ NoTrigger(w) => KeepsLines(w)
       /\ (Handles(w, "UPDATE") /\ thread[w].active) => TakesSnapshot(w)
       /\ (Handles(w, "APPEND") /\ thread[w].active) => AddsSnapshot(w)]_vars

(* After start and an update the caller changed its object, a tick drew    *)
(* the lines of the update, and a second update wrote the new text         *)
C35_Witness ==
  \E w \in Workers :
    /\ Len(handled[w]) = 3
    /\ handled[w][1].cmd = "START"
    /\ handled[w][2].cmd = "UPDATE"
    /\ handled[w][3].cmd = "UPDATE"
    /\ ticks > 0
    /\ callerLine # InitialLine
    /\ thread[w].nextRender = CallerLines
    /\ \E i \in DOMAIN out : out[i] = "b"
    /\ term.rows = <<stripAnsi(thread[w].previousRender[1].text)>>

(* The engine of worker w when the render of the step begins: after the    *)
(* lines of an update are taken, the previous render of a forced render is *)
(* forgotten, or the spinner of a tick is advanced                         *)
RenderStart(w) ==
  IF \E cmd \in {"UPDATE", "APPEND"} : Handles(w, cmd) THEN Updated(w)
  ELSE IF ForcedRender(w) THEN resetRender(Engine(w))
  ELSE IF ticks' # ticks
       THEN [Engine(w) EXCEPT !.th.nextSpinner = SpinnerFrame(thread[w].spinnerIndex)]
       ELSE Engine(w)

(* The old frame the render of engine e compares with *)
ComparedFrame(e) == IF Repaint(e) THEN <<>> ELSE OldFrame(e)

(* The changes of row r among changes, in their order *)
OfRow(changes, r) == SelectSeq(changes, LAMBDA c : c.line = r)

(* The one change that rewrites row r with text and erases to its end *)
WholeRow(r, text) == [index |-> 0, line |-> r, text |-> text \o <<ERASE_LINE_END>>]

(* text is written as one piece within the output *)
Written(text, output) ==
  \E k \in 0..(Len(output) - Len(text)) : SubSeq(output, k + 1, k + Len(text)) = text

(* The rows a line gives in the new frame of engine e *)
RowsOf(e, line) ==
  NextLines(<<line>>, ApplyColour(e.th.spinnerColor, e.th.nextSpinner), e.term.width)

(* Every line of the next-frame list of e with the force flag gives rows   *)
(* with the flag, every other line rows without                            *)
FlagCarried(e) ==
  \A i \in DOMAIN e.th.nextRender :
    \A r \in DOMAIN RowsOf(e, e.th.nextRender[i]) :
      RowsOf(e, e.th.nextRender[i])[r].force = (e.th.nextRender[i].force = TRUE)

(* For every row of the new frame of e the render collects, for a row with *)
(* the flag, the one change of the whole row, which is written; for a row  *)
(* without, the changes of getChanges                                      *)
ForcedBypassDiff(e, output) ==
  \A i \in DOMAIN NewFrame(e) :
    IF NewFrame(e)[i].force
    THEN /\ OfRow(FrameChanges(ComparedFrame(e), NewFrame(e), 0), i - 1)
              = <<WholeRow(i - 1, NewFrame(e)[i].text)>>
         /\ Written(WholeRow(i - 1, NewFrame(e)[i].text).text, output)
    ELSE OfRow(FrameChanges(ComparedFrame(e), NewFrame(e), 0), i - 1)
           = getChanges(PreviousLine(ComparedFrame(e), i - 1), NewFrame(e)[i].text, i - 1)

(* C36: in every render cycle each row made from a line with force = true  *)
(* carries force = true, and for each such row the render issues and       *)
(* writes exactly one change, {line: row, index: 0, text: the row's text   *)
(* followed by the erase to the end of the line}, also when the row is     *)
(* the previous frame's row; the rows without force get the changes of     *)
(* getChanges.  An update of a line object with force = true makes lines   *)
(* with the flag.                                                          *)
C36_ForceBypassesDiff ==
  [][\A w \in Workers :
       RenderCycle(w)
       => /\ FlagCarried(RenderStart(w))
          /\ ForcedBypassDiff(RenderStart(w), out')
          /\ Handles(w, "UPDATE")
             => \A i \in DOMAIN thread'[w].nextRender :
                  thread'[w].nextRender[i].force
                    = FieldOr(Head(cmdQ[w]).text.val, "force", FALSE)]_vars

(* A line with force that wraps to two rows was rendered by an update, and *)
(* a render with the same frame wrote both rows again                      *)
C36_Witness ==
  \E w \in Workers :
    /\ Len(handled[w]) = 3
    /\ handled[w][1].cmd = "START"
    /\ handled[w][2].cmd = "UPDATE"
    /\ handled[w][3].cmd = "RENDER"
    /\ thread[w].active
    /\ Len(thread[w].nextRender) = 1
    /\ thread[w].nextRender[1].force = TRUE
    /\ Len(thread[w].previousRender) = 2
    /\ Written(<<"a", "b", "c", "d", ERASE_LINE_END>>, out)
    /\ Written(<<"e", ERASE_LINE_END>>, out)
    /\ term.rows = <<<<"a", "b", "c", "d">>, <<"e">>>>

-----------------------------------------------------------------------------
(* The screen specification: one worker at a constant width and a caller   *)
(* that awaits every call of start, update and append, with unstyled texts *)
(* of one and of two rows                                                  *)

(* The calls of the caller in the screen specification *)
MaxScreenCalls == 3

ScreenContents ==
  {Str(<<"a", "b", "c", "d", "e">>), Str(<<"a", "b", "c", "d">>), Str(<<"a", "b">>)}

NextScreen ==
  \/ /\ Len(calls) < MaxScreenCalls
     /\ NoPending
     /\ \/ Start(<<>>)
        \/ \E t \in ScreenContents : Update(t)
        \/ \E t \in ScreenContents : AppendLines(t)
  \/ \E w \in Workers : WorkerMessage(w)
  \/ \E w \in Workers : EngineMessage(w)

SpecScreen == Init /\ [][NextScreen]_vars

(* C37: at constant width and with unstyled text, after every render cycle *)
(* of an ACTIVE session the rows of the screen are, row for row, the rows  *)
(* of the new frame, and the rows beyond it are blank: a row that is the   *)
(* same in the old and the new frame is still displayed when the frame     *)
(* shrinks.                                                                *)
C37_ScreenEqualsFrame ==
  [][\A w \in Workers :
       RenderCycle(w) => term'.rows = ShownRows(thread'[w].previousRender)]_vars

-----------------------------------------------------------------------------
(* The styles a row is displayed with *)

(* The style in force after a style sequence: a colour, or "none" after a  *)
(* reset; any other token leaves it                                        *)
StyleAfter(pen, t) ==
  CASE t \in {RED, GREEN, CYAN} -> t
    [] t \in {RESET_STYLE, CLOSE_COLOUR} -> "none"
    [] OTHER -> pen

RECURSIVE StyledWrite(_, _, _, _)
(* text is written from column col on with style pen in force: styles is,  *)
(* per column of the row, the style the column was last written with       *)
StyledWrite(styles, col, pen, text) ==
  IF text = <<>> THEN [styles |-> styles, pen |-> pen]
  ELSE IF Head(text) = ERASE_LINE_END
  THEN StyledWrite(SubSeq(styles, 1, Min(Len(styles), col)), col, pen, Tail(text))
  ELSE IF IsAnsi(Head(text))
  THEN StyledWrite(styles, col, StyleAfter(pen, Head(text)), Tail(text))
  ELSE StyledWrite(
         [i \in 1..Max(Len(styles), col + 1) |->
            IF i = col + 1 THEN pen
            ELSE IF i <= Len(styles) THEN styles[i] ELSE "none"],
         col + 1, pen, Tail(text))

(* The row that displays s, written from its first column *)
Displayed(s) == StyledWrite(<<>>, 0, "none", s)

RECURSIVE StyledChanges(_, _)
(* The changes written one after the other to the displayed row d *)
StyledChanges(d, changes) ==
  IF changes = <<>> THEN d
  ELSE StyledChanges(
         StyledWrite(d.styles, Head(changes).index, d.pen, Head(changes).text),
         Tail(changes))

(* C38: when original and target have the same visible text, then after    *)
(* the changes of getChanges are written to a row that displays original,  *)
(* every column that holds a character other than a blank is displayed     *)
(* with the style in force at that column in target.                       *)
C38_StyleCoverage ==
  (diff.phase = "diffed" /\ stripAnsi(diff.original) = stripAnsi(diff.target))
  => \A i \in 1..Len(stripAnsi(diff.target)) :
       stripAnsi(diff.target)[i] # " "
       => StyledChanges(Displayed(diff.original), diff.changes).styles[i]
            = Displayed(diff.target).styles[i]

-----------------------------------------------------------------------------
(* The texts of the rows of a new frame *)
Texts(frame) == [i \in 1..Len(frame) |-> frame[i].text]

(* No line of the next-frame list of engine e has the force flag *)
NoForcedLine(e) == \A i \in DOMAIN e.th.nextRender : e.th.nextRender[i].force # TRUE

(* C39: in every state of an ACTIVE session whose terminal was not resized *)
(* and whose next frame has no forced line, a render would compute no      *)
(* change and no erase: the old frame rebuilt from the stored previous     *)
(* render is, row for row, the new frame, also for indented and wrapped    *)
(* lines.                                                                  *)
C39_RenderIdempotent ==
  \A w \in Workers :
    (thread[w].active /\ resizes = 0 /\ NoForcedLine(Engine(w)))
    => /\ OldFrame(Engine(w)) = Texts(NewFrame(Engine(w)))
       /\ RenderChanges(Engine(w)) = <<>>

-----------------------------------------------------------------------------
(* The step is the "disconnect" event of worker w *)
Disconnects(w) == hasDisconnectListener[w] /\ ~hasDisconnectListener'[w]

(* C40: the "disconnect" event of a worker that is not the adapter's       *)
(* worker (a worker that was destroyed, after which startWorker started    *)
(* another) leaves the adapter's worker reference as it is: the reference  *)
(* denotes the new worker until destroy() or that worker's own disconnect. *)
C40_WorkerReferenceKept ==
  [][\A w \in Workers :
       (Disconnects(w) /\ worker # NoWorker /\ worker # w) => worker' = worker]_vars

=============================================================================
